---- MODULE Spec2Model ----
(***************************************************************************)
(* Interview session orchestrator of MockInterview-backend.                *)
(*                                                                         *)
(* InterviewController.processChat / processChatStreaming and clearSession *)
(* over the process-wide singletons ChatSessionManager (sessions),         *)
(* ConversationStore (userStores), ResumeContextService (cache) and        *)
(* JobDescriptionService (job descriptions).  A turn is an async function: *)
(* its synchronous stretches are atomic, and every await on real I/O (the  *)
(* resume store, the similarity search, the embedding backend, the         *)
(* provider's send and each streamed chunk) is a point where another       *)
(* request's stretch may run.  One action of the model is one stretch.     *)
(***************************************************************************)
EXTENDS Integers, Sequences, FiniteSets, TLC

(***************************************************************************)
(* Bounds of the model.                                                    *)
(***************************************************************************)
\* Turns (requests to /chat or /chat/stream) served one after another in one
\* behaviour.
MaxTurns == 2
\* Turns started in one behaviour in which turns overlap.
MaxArrivals == 3
\* Chunks the provider yields in one stream.
MaxChunks == 2
\* Direct calls of the ResumeContextService in one behaviour.
MaxCalls == 2
\* Direct calls of the ConversationStore in one behaviour.
MaxMemoryCalls == 3

(***************************************************************************)
(* Identifiers.  A user id is a string, kept as its sequence of characters *)
(* because clearUserCache matches cache keys by prefix: "u1" and "u10".    *)
(***************************************************************************)
U1 == <<"u", "1">>
U10 == <<"u", "1", "0">>
Users == {U1, U10}

\* The two request slots of the server: requests in flight at the same time.
Slots == {"p", "q"}

\* resume_id of a request; NoResume is the omitted (or falsy) resume_id.
NoResume == 0
ResumeIds == {1, 2}

\* Number.prototype.toString of a resume id inside a template string.
ResumeIdToString(r) ==
    IF r = 1 THEN "1" ELSE "2"

\* InterviewAction, and NoAction for a request without action.
NoAction == ""
CreatingActions == {"start", "restart"}
InterviewActions == {"start", "restart", "continue", "no_answer", "feedback", "end", "skip"}

\* job_description of a request; NoJD is the omitted (or empty) one.
NoJD == ""
JobDescriptions == {"jd1"}

\* message of a request; NoMessage is the omitted (or empty) one.
NoMessage == ""

(***************************************************************************)
(* Tool results (FunctionCallResult) and the chatHandlers that build them. *)
(***************************************************************************)
NoResult == [type |-> "none", question_number |-> 0, is_final |-> FALSE]

HandlerNames == {"start_interview", "ask_next_question", "generate_feedback"}

\* start_interview: { type, question_number: 1, ...args }: the spread comes
\* last, so a question_number or type among the arguments wins.
start_interview(args) ==
    [type |-> IF args.type # "" THEN args.type ELSE "start_interview",
     question_number |-> IF args.question_number # 0 THEN args.question_number ELSE 1,
     is_final |-> FALSE]

\* ask_next_question: { type, ...args }.
ask_next_question(args) ==
    [type |-> IF args.type # "" THEN args.type ELSE "ask_next_question",
     question_number |-> args.question_number,
     is_final |-> FALSE]

\* generate_feedback: { type, ...args }.
generate_feedback(args) ==
    [type |-> IF args.type # "" THEN args.type ELSE "generate_feedback",
     question_number |-> args.question_number,
     is_final |-> args.is_final]

chatHandlers(name, args) ==
    CASE name = "start_interview" -> start_interview(args)
      [] name = "ask_next_question" -> ask_next_question(args)
      [] OTHER -> generate_feedback(args)

(***************************************************************************)
(* State.                                                                  *)
(***************************************************************************)
VARIABLES
    sessions,     \* ChatSessionManager.sessions: user -> chat id, 0 = no entry
    handles,      \* the chat objects still referenced: id -> chat
    userStores,   \* ConversationStore.userStores: user -> store id, 0 = no entry
    stores,       \* the MemoryVectorStores still referenced: id -> documents
    cache,        \* ResumeContextService.cache: key -> snippet list
    jobDescs,     \* JobDescriptionService.cache: user -> job description
    primary,      \* the resume store: user -> id of the primary resume, 0 = none
    turns,        \* slot -> the request running in it, with the events written
                  \* to its response when it is a /chat/stream request
    started,      \* turns started so far
    calls         \* the fetchResumeContext calls made on the service since the
                  \* last invalidation: whom for, the search issued, the list returned

vars == <<sessions, handles, userStores, stores, cache, jobDescs, primary,
          turns, started, calls>>

\* An object reference is an id; a map of objects holds the referenced ones.
\* The next object gets the least id not in use.
FreshId(objects) ==
    CHOOSE i \in 1..(Cardinality(DOMAIN objects) + 1) :
        /\ i \notin DOMAIN objects
        /\ \A j \in 1..(i - 1) : j \in DOMAIN objects

Put(objects, id, value) ==
    [i \in DOMAIN objects \cup {id} |-> IF i = id THEN value ELSE objects[i]]

(***************************************************************************)
(* JobDescriptionService.                                                  *)
(***************************************************************************)
\* A variant of setJobDescription: the description is stored for every user.
setJobDescriptionForAll(jds, u, jd) ==
    [x \in DOMAIN jds |-> jd]

setJobDescription(jds, u, jd) ==
    [jds EXCEPT ![u] = jd]

getJobDescription(jds, u) ==
    jds[u]

clearJobDescription(jds, u) ==
    [jds EXCEPT ![u] = NoJD]

(***************************************************************************)
(* ResumeContextService: the in-process cache of snippet lists.            *)
(***************************************************************************)
\* cacheKey = resumeId ? `${userId}:resume:${resumeId}` : userId
CacheKey(u, r) ==
    IF r # NoResume THEN u \o <<":resume:", ResumeIdToString(r)>> ELSE u

\* String.prototype.startsWith
StartsWith(key, prefix) ==
    /\ Len(key) >= Len(prefix)
    /\ SubSeq(key, 1, Len(prefix)) = prefix

\* A variant of CacheHit: an empty cached list counts as a miss.
CacheHitNonEmpty(c, key) ==
    key \in DOMAIN c /\ c[key] # <<>>

\* getFromCache(cacheKey) as tested by `if (cachedContext)`: an array, also
\* an empty one, is truthy; only a missing key is not.
CacheHit(c, key) ==
    key \in DOMAIN c

setCache(c, key, docs) ==
    [k \in DOMAIN c \cup {key} |-> IF k = key THEN docs ELSE c[k]]

\* A variant of clearUserCache: only the entry under the key userId goes.
clearUserCacheExact(c, u) ==
    [k \in DOMAIN c \ {u} |-> c[k]]

clearUserCache(c, u) ==
    [k \in {x \in DOMAIN c : ~StartsWith(x, u)} |-> c[k]]

clearResumeCache(c, u, r) ==
    [k \in DOMAIN c \ {u \o <<":resume:", ResumeIdToString(r)>>} |-> c[k]]

\* One resume chunk as the similarity search returns it for a filter.
Snippet(u, r) ==
    [user_id |-> u, resume_id |-> r]

\* What the similarity search of fetchResumeContextFromDB can answer.
SearchOutcomes == {"docs", "empty", "error"}

\* A variant of fetchResumeContextFromDB: a failed search is answered with
\* the resume's snippet all the same.
fetchResumeContextFromDBAnyway(u, r, outcome) ==
    IF outcome = "empty" THEN <<>> ELSE <<Snippet(u, r)>>

\* fetchResumeContextFromDB with a fresh Map: the search result, [] when the
\* search (or the store's initialisation) raised.
fetchResumeContextFromDB(u, r, outcome) ==
    IF outcome = "docs" THEN <<Snippet(u, r)>> ELSE <<>>

(***************************************************************************)
(* ChatSessionManager.                                                     *)
(***************************************************************************)
hasSession(sess, u) ==
    sess[u] # 0

\* PromptBuilder.buildSystemPrompt({ resumeContext, jobDescription }): the
\* template embeds resumeContext and never reads jobDescription.
buildSystemPrompt(resumeContext, jobDescription) ==
    [resumeContext |-> resumeContext, jobDescription |-> NoJD]

\* The chat object getGenAI.chats.create returns.
NewChat(resumeContext, jobDescription) ==
    [systemInstruction |-> buildSystemPrompt(resumeContext, jobDescription),
     resumeId |-> NoResume,
     history |-> 0]

\* setSessionResumeId: sets the field on the session the user has now.
setSessionResumeId(hnd, sess, u, r) ==
    IF sess[u] # 0 THEN [hnd EXCEPT ![sess[u]].resumeId = r] ELSE hnd

\* createSession: a new chat, stored over any entry the user has.
createSession(hnd, sess, u, resumeContext, jobDescription) ==
    LET id == FreshId(hnd)
    IN  [handles |-> Put(hnd, id, NewChat(resumeContext, jobDescription)),
         sessions |-> [sess EXCEPT ![u] = id],
         chat |-> id]

deleteSession(sess, u) ==
    [sess EXCEPT ![u] = 0]

\* A variant of getSessionTurnCount: the length of the history is the count.
getSessionHistoryLength(sess, hnd, u) ==
    IF sess[u] = 0 THEN 0 ELSE hnd[sess[u]].history

\* getSessionTurnCount: Math.floor(history.length / 2), 0 without a session.
getSessionTurnCount(sess, hnd, u) ==
    IF sess[u] = 0 THEN 0 ELSE hnd[sess[u]].history \div 2

(***************************************************************************)
(* ConversationStore.                                                      *)
(***************************************************************************)
\* A variant of clearUserHistory: the user's store is kept.
keepUserHistory(us, u) ==
    us

clearUserHistory(us, u) ==
    [us EXCEPT ![u] = 0]

\* A variant of getOrCreateStore: every call makes a new empty store the
\* user's.
createStore(us, sto, u) ==
    LET id == FreshId(sto)
    IN  [userStores |-> [us EXCEPT ![u] = id],
         stores |-> Put(sto, id, <<>>),
         store |-> id]

\* getOrCreateStore: the user's store, a new empty one when there is none.
getOrCreateStore(us, sto, u) ==
    IF us[u] # 0
    THEN [userStores |-> us, stores |-> sto, store |-> us[u]]
    ELSE LET id == FreshId(sto)
         IN  [userStores |-> [us EXCEPT ![u] = id],
              stores |-> Put(sto, id, <<>>),
              store |-> id]

\* similaritySearch(query, k) on a MemoryVectorStore: the k documents
\* closest to the query, all of them when there are no more than k; which k
\* is decided by the embeddings.
similaritySearch(docs, k) ==
    LET all == {docs[i] : i \in 1..Len(docs)}
    IN  IF Cardinality(all) <= k THEN {all}
        ELSE {h \in SUBSET all : Cardinality(h) = k}

hasHistory(us, u) ==
    us[u] # 0

\* The documents storeMessage and storeTurn add.
MessageDoc(message) ==
    [role |-> "user", content |-> <<"Human:", message>>, result |-> NoResult]

CallDoc(name) ==
    [role |-> "user", content |-> <<"Human:", "function_call:", name>>, result |-> NoResult]

ResultDoc(result) ==
    [role |-> "ai", content |-> <<"AI:", "JSON">>, result |-> result]

(***************************************************************************)
(* StreamProcessor and the response.                                       *)
(***************************************************************************)
\* A variant of validateStreamResult: every stream result passes.
validateNothing(fullText, result) ==
    TRUE

\* validateStreamResult: text or a tool result, and a tool result has "type"
\* (every handler result has the key).
validateStreamResult(fullText, result) ==
    fullText # <<>> \/ result # NoResult

\* A variant of IsFinalFeedback: the cleanup tests a type no handler produces.
IsFinalFeedbackOfOtherType(result) ==
    result.type = "final_feedback" /\ result.is_final

\* The condition of processChat's cleanup.
IsFinalFeedback(result) ==
    result.type = "generate_feedback" /\ result.is_final

NoResponse ==
    [success |-> FALSE, action |-> NoAction, turn_count |-> 0, fields |-> {},
     type |-> "none", question_number |-> 0, is_complete |-> FALSE]

\* A variant of buildResponse: a feedback response is always complete.
buildResponseComplete(fullText, result, action, turnCount) ==
    LET question == result.type \in {"start_interview", "ask_next_question"}
        feedback == result.type = "generate_feedback"
    IN  [success |-> TRUE,
         action |-> action,
         turn_count |-> turnCount,
         fields |-> (IF result # NoResult THEN {"type", "data"} ELSE {})
                    \cup (IF result # NoResult /\ question
                          THEN {"question", "question_number", "question_type", "reasoning"}
                          ELSE {})
                    \cup (IF result # NoResult /\ feedback
                          THEN {"feedback", "is_complete"} ELSE {})
                    \cup (IF fullText # <<>> THEN {"context"} ELSE {}),
         type |-> result.type,
         question_number |-> IF question THEN result.question_number ELSE 0,
         is_complete |-> feedback]

\* buildResponse: fields names the optional keys the response carries.
buildResponse(fullText, result, action, turnCount) ==
    LET question == result.type \in {"start_interview", "ask_next_question"}
        feedback == result.type = "generate_feedback"
    IN  [success |-> TRUE,
         action |-> action,
         turn_count |-> turnCount,
         fields |-> (IF result # NoResult THEN {"type", "data"} ELSE {})
                    \cup (IF result # NoResult /\ question
                          THEN {"question", "question_number", "question_type", "reasoning"}
                          ELSE {})
                    \cup (IF result # NoResult /\ feedback
                          THEN {"feedback", "is_complete"} ELSE {})
                    \cup (IF fullText # <<>> THEN {"context"} ELSE {}),
         type |-> result.type,
         question_number |-> IF question THEN result.question_number ELSE 0,
         is_complete |-> IF feedback THEN result.is_final ELSE FALSE]

(***************************************************************************)
(* PromptBuilder.buildPrompt.  A prompt is kept as the instruction chosen  *)
(* and what the template embeds: the conversation history, the candidate's *)
(* answer and the question number that labels the answer; what a template  *)
(* does not embed is left out of the prompt.                               *)
(***************************************************************************)
NoHistory == {}
NoQuestionNumber == 0

Prompt(instruction, embeds, history, answer, questionNumber) ==
    [instruction |-> instruction, embeds |-> embeds, history |-> history,
     answer |-> answer, questionNumber |-> questionNumber]

NoPrompt == Prompt("", {}, NoHistory, "", NoQuestionNumber)

buildStartPrompt ==
    Prompt("start", {}, NoHistory, "", NoQuestionNumber)

\* The label ` (Question #n)` is there when questionNumber is truthy.
buildContinuePrompt(conversationHistory, candidateAnswer, questionNumber) ==
    Prompt("continue", {"history", "answer"}, conversationHistory,
           candidateAnswer, questionNumber)

buildFeedbackPrompt(conversationHistory) ==
    Prompt("feedback", {"history"}, conversationHistory, "", NoQuestionNumber)

buildSkipPrompt(conversationHistory) ==
    Prompt("skip", {"history"}, conversationHistory, "", NoQuestionNumber)

\* A variant of buildPrompt: END is not among the cases and takes the default.
buildPromptWithoutEnd(action, conversationHistory, candidateAnswer, questionNumber) ==
    CASE action \in {"start", "restart"} -> buildStartPrompt
      [] action = "feedback" -> buildFeedbackPrompt(conversationHistory)
      [] action = "skip" -> buildSkipPrompt(conversationHistory)
      [] OTHER -> buildContinuePrompt(conversationHistory, candidateAnswer,
                                      questionNumber)

\* The switch on action, CONTINUE and default sharing a branch.
buildPrompt(action, conversationHistory, candidateAnswer, questionNumber) ==
    CASE action \in {"start", "restart"} -> buildStartPrompt
      [] action \in {"feedback", "end"} -> buildFeedbackPrompt(conversationHistory)
      [] action = "skip" -> buildSkipPrompt(conversationHistory)
      [] OTHER -> buildContinuePrompt(conversationHistory, candidateAnswer,
                                      questionNumber)

(***************************************************************************)
(* Requests and the turn running in a slot.                                *)
(***************************************************************************)
NoCall == [name |-> "", args |-> [type |-> "", question_number |-> 0, is_final |-> FALSE]]

Finished == {"idle", "done", "failed"}

IdleTurn ==
    [pc |-> "idle", no |-> 0, user |-> U1, action |-> NoAction,
     hadSession |-> FALSE, message |-> NoMessage, resume_id |-> NoResume,
     chat |-> 0, store |-> 0, context |-> <<>>, history |-> {},
     fullText |-> <<>>, result |-> NoResult, pending |-> NoCall, chunks |-> 0,
     response |-> NoResponse, error |-> "",
     streaming |-> FALSE, events |-> <<>>, prompt |-> NoPrompt]

InFlight(s) ==
    turns[s].pc \notin Finished

\* The slot an arriving request takes: the first one not in flight.
FreeSlot ==
    IF ~InFlight("p") THEN "p" ELSE "q"

\* action || InterviewAction.CONTINUE
EffectiveAction(action) ==
    IF action = NoAction THEN "continue" ELSE action

\* A variant of shouldCreateNew: every turn creates its session.
shouldCreateAlways(had, action) ==
    TRUE

\* handleSession: shouldCreateNew
shouldCreateNew(had, action) ==
    \/ ~had
    \/ action = "start"
    \/ action = "restart"

\* The resume a creating turn grounds its session in.
TurnResume(t) ==
    IF t.resume_id # NoResume THEN t.resume_id ELSE primary[t.user]

\* A step leaves the maps as given; chats and stores that neither a map nor
\* a request in flight refers to any more are dropped.
CommitMaps(trn, sess, hnd, us, sto) ==
    LET liveChats == ({sess[u] : u \in Users} \cup {trn[x].chat : x \in Slots}) \ {0}
        liveStores == ({us[u] : u \in Users} \cup {trn[x].store : x \in Slots}) \ {0}
    IN  /\ turns' = trn
        /\ sessions' = sess
        /\ userStores' = us
        /\ handles' = [i \in liveChats |-> hnd[i]]
        /\ stores' = [i \in liveStores |-> sto[i]]

Commit(s, t, sess, hnd, us, sto) ==
    CommitMaps([turns EXCEPT ![s] = t], sess, hnd, us, sto)

\* An event written to the response of a /chat/stream request: its type and
\* what it carries (a text, a function name, the full text, an error message).
Event(type, content) ==
    [type |-> type, content |-> content]

\* A variant of Emit: nothing is written.
EmitNothing(t, e) ==
    t.events

\* The events of the turn with e written after them; only a /chat/stream
\* request has a callback and a response to write events to.
Emit(t, e) ==
    IF t.streaming THEN Append(t.events, e) ELSE t.events

\* The turn's promise rejects: the slot keeps who asked what and the error.
\* The /chat/stream route writes an error event in its catch.
FailedTurn(t, err) ==
    [IdleTurn EXCEPT !.pc = "failed", !.no = t.no,
                     !.user = t.user, !.action = t.action,
                     !.hadSession = t.hadSession,
                     !.error = err,
                     !.streaming = t.streaming,
                     !.events = Emit(t, Event("error", <<err>>))]

\* The turn's promise resolves: the slot keeps who asked what and the response.
\* The /chat/stream route writes the final event with the response.
ReturnedTurn(t, response) ==
    [IdleTurn EXCEPT !.pc = "done", !.no = t.no,
                     !.user = t.user, !.action = t.action,
                     !.hadSession = t.hadSession,
                     !.response = response,
                     !.streaming = t.streaming,
                     !.events = Emit(t, Event("final", <<>>))]

\* A variant of Fail: the failing turn takes the user's session with it.
FailAndRollBack(s, t, err) ==
    Commit(s, FailedTurn(t, err), deleteSession(sessions, t.user), handles,
           userStores, stores)

Fail(s, t, err) ==
    Commit(s, FailedTurn(t, err), sessions, handles, userStores, stores)

(***************************************************************************)
(* fetchContext's first stretch: getOrCreateStore, then the probe          *)
(* similaritySearch("", 1) is awaited.  sess, hnd and us are the maps as   *)
(* the session resolution before it left them.                             *)
(***************************************************************************)
EnterFetchContext(s, t, sess, hnd, us) ==
    LET g == getOrCreateStore(us, stores, t.user)
    IN  Commit(s, [t EXCEPT !.pc = "probe", !.store = g.store],
               sess, hnd, g.userStores, g.stores)

(***************************************************************************)
(* handleSession from the resume context on: setSessionResumeId, the job   *)
(* description, clearUserHistory and restartSession for RESTART,           *)
(* createSession otherwise; then processChat goes on into fetchContext.    *)
(***************************************************************************)
CreateSession(s, t, jds, ctx, rid) ==
    LET u == t.user
        hnd1 == IF rid # NoResume
                THEN setSessionResumeId(handles, sessions, u, rid) ELSE handles
        restart == t.action = "restart"
        us1 == IF restart THEN clearUserHistory(userStores, u) ELSE userStores
        \* restartSession: deleteSession, then createSession
        sess1 == IF restart THEN deleteSession(sessions, u) ELSE sessions
        c == createSession(hnd1, sess1, u, ctx, getJobDescription(jds, u))
    IN  EnterFetchContext(s, [t EXCEPT !.chat = c.chat, !.context = <<>>],
                          c.sessions, c.handles, us1)

(***************************************************************************)
(* A request arrives: processChat (or processChatStreaming) up to its      *)
(* first await on I/O.                                                     *)
(***************************************************************************)
StartTurn(s, req) ==
    LET u == req.user
        jds == IF req.job_description # NoJD
               THEN setJobDescription(jobDescs, u, req.job_description)
               ELSE jobDescs
        \* processChatStreaming calls handleSession(userId, action)
        rid == IF req.streaming THEN NoResume ELSE req.resume_id
        \* hadSession: what hasSession(userId) answers in shouldCreateNew
        t == [IdleTurn EXCEPT !.no = started + 1,
                              !.user = u, !.action = req.action,
                              !.hadSession = hasSession(sessions, u),
                              !.message = req.message, !.resume_id = rid,
                              !.streaming = req.streaming]
        key == CacheKey(u, rid)
    IN  /\ s = FreeSlot
        /\ ~InFlight(s)
        /\ started' = started + 1
        /\ jobDescs' = jds
        /\ UNCHANGED <<primary, calls>>
        /\ IF ~shouldCreateNew(t.hadSession, req.action)
           THEN \* getSession returns the entry hasSession has just seen
                /\ EnterFetchContext(s, [t EXCEPT !.chat = sessions[u]],
                                     sessions, handles, userStores)
                /\ UNCHANGED cache
           ELSE IF rid # NoResume
           THEN IF CacheHit(cache, key)
                THEN /\ CreateSession(s, t, jds, cache[key], rid)
                     /\ UNCHANGED cache
                ELSE /\ Commit(s, [t EXCEPT !.pc = "search"],
                               sessions, handles, userStores, stores)
                     /\ UNCHANGED cache
           ELSE /\ Commit(s, [t EXCEPT !.pc = "primary"],
                          sessions, handles, userStores, stores)
                /\ UNCHANGED cache

\* A variant of NoPrimaryResume: a missing primary resume goes unnoticed.
NoPrimaryResumeUnnoticed(p) ==
    FALSE

\* fetchPrimaryResumeContext: if (!primaryResumeId) throw
NoPrimaryResume(p) ==
    p = NoResume

\* fetchPrimaryResumeContext after getPrimaryResumeId has answered.
PrimaryDone(s) ==
    LET t == turns[s]
        p == primary[t.user]
        key == CacheKey(t.user, p)
    IN  /\ t.pc = "primary"
        /\ UNCHANGED <<cache, jobDescs, primary, started, calls>>
        /\ IF NoPrimaryResume(p)
           THEN Fail(s, t, "No primary resume found")
           ELSE IF CacheHit(cache, key)
           THEN Commit(s, [t EXCEPT !.pc = "primary2", !.context = cache[key]],
                       sessions, handles, userStores, stores)
           ELSE Commit(s, [t EXCEPT !.pc = "search"],
                       sessions, handles, userStores, stores)

\* fetchResumeContext after fetchResumeContextFromDB has answered.
SearchDone(s, outcome) ==
    LET t == turns[s]
        r == TurnResume(t)
        docs == fetchResumeContextFromDB(t.user, r, outcome)
    IN  /\ t.pc = "search"
        /\ cache' = setCache(cache, CacheKey(t.user, r), docs)
        /\ UNCHANGED <<jobDescs, primary, started, calls>>
        /\ IF t.resume_id # NoResume
           THEN CreateSession(s, t, jobDescs, docs, t.resume_id)
           ELSE Commit(s, [t EXCEPT !.pc = "primary2", !.context = docs],
                       sessions, handles, userStores, stores)

\* handleSession after its own getPrimaryResumeId has answered.
PrimaryAgainDone(s) ==
    LET t == turns[s]
    IN  /\ t.pc = "primary2"
        /\ CreateSession(s, t, jobDescs, t.context, primary[t.user])
        /\ UNCHANGED <<cache, jobDescs, primary, started, calls>>

(***************************************************************************)
(* processChat after fetchContext has returned history: buildPrompt, then  *)
(* storeMessage's first stretch (getOrCreateStore, the embedding awaited)  *)
(* when the request carries a message and is not START/RESTART, else       *)
(* sendMessageStream is awaited.                                           *)
(***************************************************************************)
\* A variant of StoresMessage: the answer is never recorded.
StoresNoMessage(t) ==
    FALSE

StoresMessage(t) ==
    /\ t.message # NoMessage
    /\ t.action # "start"
    /\ t.action # "restart"

AfterHistory(s, t) ==
    LET \* buildPrompt(action || CONTINUE, conversationHistory, message || "",
        \* question_number), for a request without question_number
        prompt == buildPrompt(EffectiveAction(t.action), t.history, t.message,
                              NoQuestionNumber)
    IN  IF StoresMessage(t)
        THEN LET g == getOrCreateStore(userStores, stores, t.user)
             IN  Commit(s, [t EXCEPT !.pc = "storemsg", !.store = g.store,
                                     !.prompt = prompt],
                        sessions, handles, g.userStores, g.stores)
        ELSE Commit(s, [t EXCEPT !.pc = "send", !.store = 0, !.prompt = prompt],
                    sessions, handles, userStores, stores)

\* maxResults of processChat's fetchContext(userId, "interview", 10).
MaxResults == 10

\* fetchContext after the probe similaritySearch("", 1).catch(() => []).
ProbeDone(s, ok) ==
    LET t == turns[s]
    IN  /\ t.pc = "probe"
        /\ UNCHANGED <<cache, jobDescs, primary, started, calls>>
        /\ IF ~ok \/ stores[t.store] = <<>>
           THEN AfterHistory(s, [t EXCEPT !.history = {}])
           ELSE Commit(s, [t EXCEPT !.pc = "query"],
                       sessions, handles, userStores, stores)

\* fetchContext after similaritySearch("interview", 10).
QueryDone(s, ok) ==
    LET t == turns[s]
    IN  /\ t.pc = "query"
        /\ UNCHANGED <<cache, jobDescs, primary, started, calls>>
        /\ IF ~ok
           THEN Fail(s, t, "embedding failed")
           ELSE \E h \in similaritySearch(stores[t.store], MaxResults) :
                    AfterHistory(s, [t EXCEPT !.history = h])

\* storeMessage after addDocuments.
StoreMessageDone(s, ok) ==
    LET t == turns[s]
    IN  /\ t.pc = "storemsg"
        /\ UNCHANGED <<cache, jobDescs, primary, started, calls>>
        /\ IF ~ok
           THEN Fail(s, t, "embedding failed")
           ELSE Commit(s, [t EXCEPT !.pc = "send", !.store = 0],
                       sessions, handles, userStores,
                       [stores EXCEPT ![t.store] = Append(@, MessageDoc(t.message))])

\* chat.sendMessageStream has answered.
SendDone(s, ok) ==
    LET t == turns[s]
    IN  /\ t.pc = "send"
        /\ UNCHANGED <<cache, jobDescs, primary, started, calls>>
        /\ IF ok
           THEN Commit(s, [t EXCEPT !.pc = "stream"],
                       sessions, handles, userStores, stores)
           ELSE Fail(s, t, "send failed")

(***************************************************************************)
(* StreamProcessor.processStream / processStreamWithCallback: one chunk of *)
(* the stream.  Text is appended; the first function call of the chunk is  *)
(* handed to processFunctionCall, whose null for a name without handler is *)
(* assigned to functionCallResult like any result; for a name with a       *)
(* handler the handler runs and storeTurn's addDocuments is awaited.       *)
(***************************************************************************)
StreamChunk(s, c) ==
    LET t == turns[s]
        \* onChunk({ type: "text", content: chunk.text })
        t1 == [t EXCEPT !.fullText = IF c.text # "" THEN Append(@, c.text) ELSE @,
                        !.chunks = @ + 1,
                        !.events = IF c.text # ""
                                   THEN Emit(t, Event("text", <<c.text>>)) ELSE @]
    IN  /\ t.pc = "stream"
        /\ t.chunks < MaxChunks
        /\ UNCHANGED <<cache, jobDescs, primary, started, calls>>
        /\ IF c.call = NoCall
           THEN Commit(s, t1, sessions, handles, userStores, stores)
           ELSE IF c.call.name \notin HandlerNames
           THEN Commit(s, [t1 EXCEPT !.result = NoResult,
                                     !.events = Emit(t1, Event("function_call",
                                                               <<c.call.name>>))],
                       sessions, handles, userStores, stores)
           ELSE LET g == getOrCreateStore(userStores, stores, t.user)
                IN  Commit(s, [t1 EXCEPT !.pc = "storeturn", !.pending = c.call,
                                         !.store = g.store],
                           sessions, handles, g.userStores, g.stores)

\* A variant of StoreTurnDone: the turn stops waiting for addDocuments and
\* never takes up its stream again.
StoreTurnAbandoned(s, ok) ==
    /\ turns[s].pc = "storeturn"
    /\ FALSE
    /\ UNCHANGED vars

\* storeTurn after addDocuments: the two documents are in the store and
\* processFunctionCall returns the handler's result, or the rejection goes
\* up through processFunctionCall and processStream.
StoreTurnDone(s, ok) ==
    LET t == turns[s]
        result == chatHandlers(t.pending.name, t.pending.args)
    IN  /\ t.pc = "storeturn"
        /\ UNCHANGED <<cache, jobDescs, primary, started, calls>>
        /\ IF ok
           THEN Commit(s, [t EXCEPT !.pc = "stream", !.result = result,
                                    !.pending = NoCall, !.store = 0,
                                    !.events = Emit(t, Event("function_call",
                                                             <<t.pending.name>>))],
                       sessions, handles, userStores,
                       [stores EXCEPT ![t.store] =
                           @ \o <<CallDoc(t.pending.name), ResultDoc(result)>>])
           ELSE Fail(s, [t EXCEPT !.events =
                                     Emit(t, Event("error", <<"Function execution failed">>))],
                     "Stream processing failed: Function execution failed")

\* A variant of StreamError: the failing chunk is skipped and the loop goes on.
StreamErrorSkipped(s) ==
    LET t == turns[s]
    IN  /\ t.pc = "stream"
        /\ t.chunks < MaxChunks
        /\ UNCHANGED <<cache, jobDescs, primary, started, calls>>
        /\ Commit(s, [t EXCEPT !.chunks = @ + 1],
                  sessions, handles, userStores, stores)

\* The provider's stream raises: processStreamWithCallback tells the callback
\* and both processors rethrow.
StreamError(s) ==
    LET t == turns[s]
    IN  /\ t.pc = "stream"
        /\ UNCHANGED <<cache, jobDescs, primary, started, calls>>
        /\ Fail(s, [t EXCEPT !.events = Emit(t, Event("error", <<"stream error">>))],
                "Stream processing failed")

\* A variant of StreamEnd: the cleanup after final feedback comes before
\* buildResponse.
StreamEndCleansUpFirst(s) ==
    LET t == turns[s]
        u == t.user
        hnd == [handles EXCEPT ![t.chat].history = @ + 2]
        t1 == [t EXCEPT !.events = Emit(t, Event("complete", t.fullText))]
        sess == IF IsFinalFeedback(t.result)
                THEN deleteSession(sessions, u) ELSE sessions
        response == buildResponse(t.fullText, t.result, EffectiveAction(t.action),
                                  getSessionTurnCount(sess, hnd, u))
    IN  /\ t.pc = "stream"
        /\ UNCHANGED <<cache, jobDescs, primary, started, calls>>
        /\ IF ~validateStreamResult(t.fullText, t.result)
           THEN Commit(s, FailedTurn(t1, "No content received from stream"),
                       sessions, hnd, userStores, stores)
           ELSE Commit(s, ReturnedTurn(t1, response), sess, hnd, userStores, stores)

\* The stream ends: the chat has the prompt and the model's answer in its
\* history; validateStreamResult, buildResponse, the cleanup after final
\* feedback, return.
StreamEnd(s) ==
    LET t == turns[s]
        u == t.user
        hnd == [handles EXCEPT ![t.chat].history = @ + 2]
        \* onChunk({ type: "complete", fullText })
        t1 == [t EXCEPT !.events = Emit(t, Event("complete", t.fullText))]
        response == buildResponse(t.fullText, t.result, EffectiveAction(t.action),
                                  getSessionTurnCount(sessions, hnd, u))
    IN  /\ t.pc = "stream"
        /\ UNCHANGED <<cache, jobDescs, primary, started, calls>>
        /\ IF ~validateStreamResult(t.fullText, t.result)
           THEN Commit(s, FailedTurn(t1, "No content received from stream"),
                       sessions, hnd, userStores, stores)
           ELSE Commit(s, ReturnedTurn(t1, response),
                       IF IsFinalFeedback(t.result)
                       THEN deleteSession(sessions, u) ELSE sessions,
                       hnd, userStores, stores)

(***************************************************************************)
(* InterviewController.clearSession and the services' own invalidations.   *)
(***************************************************************************)
ClearSession(u) ==
    /\ CommitMaps(turns, deleteSession(sessions, u), handles,
                  clearUserHistory(userStores, u), stores)
    /\ cache' = clearUserCache(cache, u)
    /\ jobDescs' = clearJobDescription(jobDescs, u)
    /\ calls' = <<>>
    /\ UNCHANGED <<primary, started>>

\* InterviewController.clearAll: every service forgets every user.
ClearAll ==
    /\ CommitMaps(turns, [u \in Users |-> 0], handles, [u \in Users |-> 0], stores)
    /\ cache' = <<>>
    /\ jobDescs' = [u \in Users |-> NoJD]
    /\ calls' = <<>>
    /\ UNCHANGED <<primary, started>>

\* InterviewController.getStatus.
getStatus(sess, hnd, us, jds, u) ==
    [has_active_session |-> hasSession(sess, u),
     turn_count |-> getSessionTurnCount(sess, hnd, u),
     has_history |-> hasHistory(us, u),
     has_job_description |-> getJobDescription(jds, u) # NoJD]

ClearUserHistory(u) ==
    /\ CommitMaps(turns, sessions, handles, clearUserHistory(userStores, u), stores)
    /\ UNCHANGED <<cache, jobDescs, primary, started, calls>>

ClearUserCache(u) ==
    /\ cache' = clearUserCache(cache, u)
    /\ calls' = <<>>
    /\ UNCHANGED <<sessions, handles, userStores, stores, jobDescs, primary,
                   turns, started>>

ClearResumeCache(u, r) ==
    /\ cache' = clearResumeCache(cache, u, r)
    /\ calls' = <<>>
    /\ UNCHANGED <<sessions, handles, userStores, stores, jobDescs, primary,
                   turns, started>>

\* fetchResumeContext called on the service: a hit returns the cached list,
\* a miss searches and caches what fetchResumeContextFromDB returns.
FetchResumeContext(u, r, outcome) ==
    LET key == CacheKey(u, r)
        hit == CacheHit(cache, key)
        docs == IF hit THEN cache[key] ELSE fetchResumeContextFromDB(u, r, outcome)
    IN  /\ Len(calls) < MaxCalls
        /\ cache' = IF hit THEN cache ELSE setCache(cache, key, docs)
        /\ calls' = Append(calls, [user |-> u, resume |-> r,
                                   search |-> IF hit THEN "none" ELSE outcome,
                                   result |-> docs])
        /\ UNCHANGED <<sessions, handles, userStores, stores, jobDescs, primary,
                       turns, started>>

(***************************************************************************)
(* ConversationStore called on its own: storeTurn, fetchContext and        *)
(* clearUserHistory, one call after another, each logged in calls with     *)
(* what it was given and what came of it.                                  *)
(***************************************************************************)
\* The two documents storeTurn adds: `Human: ${input}` and `AI: ${output}`.
TurnDocs(input, output) ==
    <<[role |-> "user", content |-> <<"Human:", input>>, result |-> NoResult],
      [role |-> "ai", content |-> <<"AI:", output>>, result |-> NoResult]>>

\* A variant of similaritySearchRanked: only the closest document is returned.
similaritySearchClosest(docs, k) ==
    {<<docs[i]>> : i \in 1..Len(docs)}

\* similaritySearch(query, k) as the list it returns: k documents of the
\* store, all of them when there are no more than k, in the order of their
\* similarity to the query, which the embeddings decide.
similaritySearchRanked(docs, k) ==
    LET n == IF Len(docs) < k THEN Len(docs) ELSE k
        picks == {f \in [1..n -> 1..Len(docs)] :
                     \A i, j \in 1..n : f[i] = f[j] => i = j}
    IN  {[i \in 1..n |-> docs[f[i]]] : f \in picks}

\* docs.map((d) => d.pageContent).join("\n"), kept as the list of the parts.
JoinPageContents(docs) ==
    [i \in 1..Len(docs) |-> docs[i].content]

\* backend: whether the embedding backend answered each request the call
\* made of it, in their order.
MemoryCall(op, u, input, output, k, size, backend, outcome, result) ==
    [op |-> op, user |-> u, input |-> input, output |-> output, k |-> k,
     size |-> size, backend |-> backend, outcome |-> outcome, result |-> result]

\* storeTurn(userId, input, output): getOrCreateStore, then addDocuments,
\* which rejects when the embedding backend fails.
StoreTurnCall(u, input, output, ok) ==
    LET g == getOrCreateStore(userStores, stores, u)
    IN  /\ Len(calls) < MaxMemoryCalls
        /\ CommitMaps(turns, sessions, handles, g.userStores,
                      IF ok
                      THEN [g.stores EXCEPT ![g.store] = @ \o TurnDocs(input, output)]
                      ELSE g.stores)
        /\ calls' = Append(calls,
                           MemoryCall("storeTurn", u, input, output, 0, 0, <<ok>>,
                                      IF ok THEN "returned" ELSE "failed", <<>>))
        /\ UNCHANGED <<cache, jobDescs, primary, started>>

\* fetchContext(userId, query, maxResults): getOrCreateStore, the probe
\* similaritySearch("", 1).catch(() => []), "" when it is empty, else the
\* search for the query, whose rejection is the call's.  size is the number
\* of documents the user's store holds when the call is made.
FetchContextCall(u, k, probeOk, queryOk) ==
    LET g == getOrCreateStore(userStores, stores, u)
        docs == g.stores[g.store]
        allDocs == IF probeOk THEN docs ELSE <<>>
        log(backend, outcome, result) ==
            calls' = Append(calls, MemoryCall("fetchContext", u, "", "", k,
                                              Len(docs), backend, outcome, result))
    IN  /\ Len(calls) < MaxMemoryCalls
        /\ CommitMaps(turns, sessions, handles, g.userStores, g.stores)
        /\ UNCHANGED <<cache, jobDescs, primary, started>>
        /\ IF allDocs = <<>>
           THEN log(<<probeOk>>, "returned", <<>>)
           ELSE IF ~queryOk
           THEN log(<<TRUE, FALSE>>, "failed", <<>>)
           ELSE \E found \in similaritySearchRanked(docs, k) :
                    log(<<TRUE, TRUE>>, "returned", JoinPageContents(found))

\* clearUserHistory(userId) called on the store.
ClearHistoryCall(u) ==
    /\ Len(calls) < MaxMemoryCalls
    /\ CommitMaps(turns, sessions, handles, clearUserHistory(userStores, u), stores)
    /\ calls' = Append(calls, MemoryCall("clearUserHistory", u, "", "", 0, 0, <<>>,
                                         "returned", <<>>))
    /\ UNCHANGED <<cache, jobDescs, primary, started>>

(***************************************************************************)
(* A handler of chatHandlers called on its own with an argument record,    *)
(* logged in calls with its result.                                        *)
(***************************************************************************)
HandlerCall(name, args) ==
    /\ Len(calls) < MaxCalls
    /\ calls' = Append(calls, [name |-> name, args |-> args,
                               result |-> chatHandlers(name, args)])
    /\ UNCHANGED <<sessions, handles, userStores, stores, cache, jobDescs,
                   primary, turns, started>>

(***************************************************************************)
(* PromptBuilder.buildPrompt called on its own, logged in calls with its   *)
(* arguments and the prompt it returns.                                    *)
(***************************************************************************)
BuildPromptCall(action, conversationHistory, candidateAnswer, questionNumber) ==
    /\ Len(calls) < MaxCalls
    /\ calls' = Append(calls,
                       [action |-> action, history |-> conversationHistory,
                        answer |-> candidateAnswer, questionNumber |-> questionNumber,
                        prompt |-> buildPrompt(action, conversationHistory,
                                               candidateAnswer, questionNumber)])
    /\ UNCHANGED <<sessions, handles, userStores, stores, cache, jobDescs,
                   primary, turns, started>>

(***************************************************************************)
(* ChatSessionManager.getSessionTurnCount called on its own.  read is what *)
(* session.getHistory() does when the user has a session: it raises, or it *)
(* returns a history of the given length; the catch turns a raise into 0.  *)
(***************************************************************************)
TurnCountCall(u, read) ==
    LET had == hasSession(sessions, u)
        hnd == IF had THEN [handles EXCEPT ![sessions[u]].history = read.length]
               ELSE handles
    IN  /\ Len(calls) < MaxCalls
        /\ calls' = Append(calls,
                           [user |-> u, session |-> had, read |-> read,
                            result |-> IF had /\ ~read.ok THEN 0
                                       ELSE getSessionTurnCount(sessions, hnd, u)])
        /\ UNCHANGED <<sessions, handles, userStores, stores, cache, jobDescs,
                       primary, turns, started>>

(***************************************************************************)
(* Inputs.                                                                 *)
(***************************************************************************)
Request(users, actions, rids, messages, jds, modes) ==
    [user : users, action : actions, resume_id : rids, message : messages,
     job_description : jds, streaming : modes]

CallArgs(q, f) ==
    [type |-> "", question_number |-> q, is_final |-> f]

\* The function calls the model is seen to make.
Calls ==
    {[name |-> "start_interview", args |-> CallArgs(0, FALSE)],
     [name |-> "ask_next_question", args |-> CallArgs(2, FALSE)],
     [name |-> "generate_feedback", args |-> CallArgs(0, TRUE)],
     [name |-> "generate_feedback", args |-> CallArgs(0, FALSE)],
     [name |-> "other_tool", args |-> CallArgs(0, FALSE)]}

Chunk(texts, calls_) ==
    [text : texts, call : calls_]

Idle ==
    \A s \in Slots : ~InFlight(s)

Init ==
    /\ sessions = [u \in Users |-> 0]
    /\ handles = <<>>
    /\ userStores = [u \in Users |-> 0]
    /\ stores = <<>>
    /\ cache = <<>>
    /\ jobDescs = [u \in Users |-> NoJD]
    /\ primary \in {[u \in Users |-> NoResume], [u \in Users |-> 2]}
    /\ turns = [s \in Slots |-> IdleTurn]
    /\ started = 0
    /\ calls = <<>>

(***************************************************************************)
(* Spec: the interview of one user over /chat, the requests served one     *)
(* after another.                                                          *)
(***************************************************************************)
Requests ==
    Request({U1}, {"start", "restart", "continue", "feedback", NoAction},
            {NoResume, 1}, {NoMessage, "m"}, {NoJD}, {FALSE})

Chunks ==
    Chunk({""}, Calls) \cup {[text |-> "t", call |-> NoCall]}

Serve ==
    /\ Idle
    /\ started < MaxTurns
    /\ \E req \in Requests : StartTurn("p", req)

Clear ==
    /\ Idle
    /\ ClearSession(U1)

Primary == \E s \in Slots : PrimaryDone(s)
Search == \E s \in Slots, o \in SearchOutcomes : SearchDone(s, o)
PrimaryAgain == \E s \in Slots : PrimaryAgainDone(s)
Probe == \E s \in Slots, ok \in BOOLEAN : ProbeDone(s, ok)
Query == \E s \in Slots, ok \in BOOLEAN : QueryDone(s, ok)
StoreMessage == \E s \in Slots, ok \in BOOLEAN : StoreMessageDone(s, ok)
Send == \E s \in Slots, ok \in BOOLEAN : SendDone(s, ok)
Stream == \E s \in Slots, c \in Chunks : StreamChunk(s, c)
StoreTurn == \E s \in Slots, ok \in BOOLEAN : StoreTurnDone(s, ok)
StreamFails == \E s \in Slots : StreamError(s)
StreamEnds == \E s \in Slots : StreamEnd(s)

\* The steps of a turn after its first stretch.
Step ==
    \/ Primary
    \/ Search
    \/ PrimaryAgain
    \/ Probe
    \/ Query
    \/ StoreMessage
    \/ Send
    \/ Stream
    \/ StoreTurn
    \/ StreamFails
    \/ StreamEnds

Next ==
    \/ Serve
    \/ Clear
    \/ Step

Spec == Init /\ [][Next]_vars

(***************************************************************************)
(* ConcSpec: requests of one user arriving while another is in flight.     *)
(***************************************************************************)
ConcRequests ==
    Request({U1}, {"start", "continue"}, {1}, {NoMessage}, {NoJD}, {FALSE})

ConcChunks ==
    Chunk({""}, {[name |-> "start_interview", args |-> CallArgs(0, FALSE)],
                 [name |-> "ask_next_question", args |-> CallArgs(2, FALSE)]})

Arrive ==
    /\ started < MaxArrivals
    /\ \E req \in ConcRequests : StartTurn(FreeSlot, req)

ConcSearch == \E s \in Slots : SearchDone(s, "docs")
ConcProbe == \E s \in Slots : ProbeDone(s, TRUE)
ConcQuery == \E s \in Slots : QueryDone(s, TRUE)
ConcSend == \E s \in Slots : SendDone(s, TRUE)
ConcStream == \E s \in Slots, c \in ConcChunks : StreamChunk(s, c)
ConcStoreTurn == \E s \in Slots : StoreTurnDone(s, TRUE)

ConcNext ==
    \/ Arrive
    \/ ConcSearch
    \/ ConcProbe
    \/ ConcQuery
    \/ ConcSend
    \/ ConcStream
    \/ ConcStoreTurn
    \/ StreamEnds

ConcSpec == Init /\ [][ConcNext]_vars

(***************************************************************************)
(* CacheSpec: the ResumeContextService called on its own.                  *)
(***************************************************************************)
Fetch ==
    \E u \in Users, r \in {NoResume} \cup ResumeIds, o \in SearchOutcomes :
        FetchResumeContext(u, r, o)

InvalidateUser == \E u \in Users : ClearUserCache(u)

InvalidateResume == \E u \in Users, r \in ResumeIds : ClearResumeCache(u, r)

CacheNext ==
    \/ Fetch
    \/ InvalidateUser
    \/ InvalidateResume

CacheSpec == Init /\ [][CacheNext]_vars

(***************************************************************************)
(* FrameSpec: two users, each with requests and clearing operations, one   *)
(* operation at a time.                                                    *)
(***************************************************************************)
FrameRequests ==
    Request(Users, {"start", "continue"}, {1}, {NoMessage}, {NoJD} \cup JobDescriptions,
            {FALSE})

FrameChunks ==
    Chunk({""}, {[name |-> "ask_next_question", args |-> CallArgs(2, FALSE)]})

FrameServe ==
    /\ Idle
    /\ started < MaxTurns
    /\ \E req \in FrameRequests : StartTurn("p", req)

FrameClearSession == Idle /\ \E u \in Users : ClearSession(u)
FrameClearHistory == Idle /\ \E u \in Users : ClearUserHistory(u)
FrameClearCache == Idle /\ \E u \in Users : ClearUserCache(u)
FrameStream == \E s \in Slots, c \in FrameChunks : StreamChunk(s, c)

FrameNext ==
    \/ FrameServe
    \/ FrameClearSession
    \/ FrameClearHistory
    \/ FrameClearCache
    \/ ConcSearch
    \/ ConcProbe
    \/ ConcQuery
    \/ ConcSend
    \/ FrameStream
    \/ ConcStoreTurn
    \/ StreamEnds

FrameSpec == Init /\ [][FrameNext]_vars

(***************************************************************************)
(* JdSpec: one user whose requests may carry a job description, with       *)
(* restarts, final feedback, direct fetches of the resume context and the  *)
(* clearing operations.                                                    *)
(***************************************************************************)
JdRequests ==
    Request({U1}, {"start", "restart", "continue"}, {1}, {NoMessage},
            {NoJD, "jd1", "jd2"}, {FALSE})

JdChunks ==
    Chunk({""}, {[name |-> "ask_next_question", args |-> CallArgs(2, FALSE)],
                 [name |-> "generate_feedback", args |-> CallArgs(0, TRUE)]})

JdServe ==
    /\ Idle
    /\ started < MaxTurns
    /\ \E req \in JdRequests : StartTurn(FreeSlot, req)

JdFetch == \E r \in {NoResume, 1} : FetchResumeContext(U1, r, "docs")
JdClearSession == \E u \in Users : ClearSession(u)
JdClearAll == ClearAll
JdStream == \E s \in Slots, c \in JdChunks : StreamChunk(s, c)

JdNext ==
    \/ JdServe
    \/ JdFetch
    \/ JdClearSession
    \/ JdClearAll
    \/ ConcSearch
    \/ ConcProbe
    \/ ConcQuery
    \/ ConcSend
    \/ JdStream
    \/ ConcStoreTurn
    \/ StreamEnds

JdSpec == Init /\ [][JdNext]_vars

(***************************************************************************)
(* MemorySpec: the ConversationStore called on its own.                    *)
(***************************************************************************)
MemoryTexts == {"hello", "hi"}

\* maxResults: below, at and above the two entries of one turn.
MemoryLimits == {1, 2, 5}

MemoryStoreTurn ==
    \E u \in Users, input \in MemoryTexts, output \in MemoryTexts, ok \in BOOLEAN :
        StoreTurnCall(u, input, output, ok)

MemoryFetchContext ==
    \E u \in Users, k \in MemoryLimits, probeOk \in BOOLEAN, queryOk \in BOOLEAN :
        FetchContextCall(u, k, probeOk, queryOk)

MemoryClear == \E u \in Users : ClearHistoryCall(u)

MemoryNext ==
    \/ MemoryStoreTurn
    \/ MemoryFetchContext
    \/ MemoryClear

MemorySpec == Init /\ [][MemoryNext]_vars

(***************************************************************************)
(* ActionSpec: the interview of one user with every action a request can   *)
(* name (and an unknown one), over /chat and /chat/stream, the requests    *)
(* served one after another and every collaborator answering.              *)
(***************************************************************************)
ActionRequests ==
    Request({U1}, InterviewActions \cup {NoAction, "other"}, {NoResume, 1},
            {NoMessage, "m"}, {NoJD}, BOOLEAN)

ActionChunks ==
    Chunk({""}, {[name |-> "ask_next_question", args |-> CallArgs(2, FALSE)],
                 [name |-> "generate_feedback", args |-> CallArgs(0, TRUE)],
                 [name |-> "generate_feedback", args |-> CallArgs(0, FALSE)]})
        \cup {[text |-> "t", call |-> NoCall]}

ActionServe ==
    /\ Idle
    /\ started < MaxTurns
    /\ \E req \in ActionRequests : StartTurn("p", req)

ActionStoreMessage == \E s \in Slots : StoreMessageDone(s, TRUE)
ActionStream == \E s \in Slots, c \in ActionChunks : StreamChunk(s, c)

ActionNext ==
    \/ ActionServe
    \/ Primary
    \/ ConcSearch
    \/ PrimaryAgain
    \/ ConcProbe
    \/ ConcQuery
    \/ ActionStoreMessage
    \/ ConcSend
    \/ ActionStream
    \/ ConcStoreTurn
    \/ StreamEnds

ActionSpec == Init /\ [][ActionNext]_vars

(***************************************************************************)
(* HandlerSpec: the result builders applied to the argument records the    *)
(* model can send.                                                         *)
(***************************************************************************)
\* Argument records without and with a type, without and with a
\* question_number, with is_final either way.
HandlerArgs ==
    [type : {"", "generate_feedback"}, question_number : {0, 1, 3},
     is_final : BOOLEAN]

HandlerNext ==
    \E name \in HandlerNames, args \in HandlerArgs : HandlerCall(name, args)

HandlerSpec == Init /\ [][HandlerNext]_vars

(***************************************************************************)
(* PromptSpec: buildPrompt applied to every action, an unknown one and the *)
(* empty string, with and without history, answer and question number.     *)
(***************************************************************************)
PromptActions == InterviewActions \cup {"other", NoAction}
PromptHistories == {NoHistory, {MessageDoc("m")}}
PromptAnswers == {"", "m"}
PromptQuestionNumbers == {NoQuestionNumber, 2}

PromptNext ==
    \E action \in PromptActions, history \in PromptHistories,
       answer \in PromptAnswers, questionNumber \in PromptQuestionNumbers :
        BuildPromptCall(action, history, answer, questionNumber)

PromptSpec == Init /\ [][PromptNext]_vars

(***************************************************************************)
(* LiveSpec: the interview of one user over /chat whose collaborators      *)
(* answer before the prompt is sent, and whose provider stream yields,     *)
(* raises or ends.  The provider's stream is taken to end or raise in the  *)
(* end, and the embedding backend to answer the storeTurn a chunk is       *)
(* handled with; no step is taken for a turn but those.                    *)
(***************************************************************************)
LiveRequests ==
    Request({U1}, {"start", "continue"}, {1}, {NoMessage}, {NoJD}, {FALSE})

LiveChunks ==
    Chunk({""}, {[name |-> "ask_next_question", args |-> CallArgs(2, FALSE)],
                 [name |-> "generate_feedback", args |-> CallArgs(0, TRUE)]})
        \cup {[text |-> "t", call |-> NoCall]}

LiveServe ==
    /\ Idle
    /\ started < MaxTurns
    /\ \E req \in LiveRequests : StartTurn("p", req)

LiveStream == \E s \in Slots, c \in LiveChunks : StreamChunk(s, c)

\* The provider's stream raises or ends.
StreamFinishes ==
    \/ StreamFails
    \/ StreamEnds

LiveNext ==
    \/ LiveServe
    \/ ConcSearch
    \/ ConcProbe
    \/ ConcQuery
    \/ ConcSend
    \/ LiveStream
    \/ StoreTurn
    \/ StreamFails
    \/ StreamEnds

LiveSpec ==
    /\ Init
    /\ [][LiveNext]_vars
    /\ WF_vars(StreamFinishes)
    /\ WF_vars(StoreTurn)

(***************************************************************************)
(* RaceSpec: two requests of one user, the second arriving while the first *)
(* is in flight or after it, with final feedback among the tool calls and  *)
(* clearSession at any moment.                                             *)
(***************************************************************************)
RaceRequests ==
    Request({U1}, {"start", "restart", "continue"}, {1}, {NoMessage}, {NoJD}, {FALSE})

RaceChunks ==
    Chunk({""}, {[name |-> "ask_next_question", args |-> CallArgs(2, FALSE)],
                 [name |-> "generate_feedback", args |-> CallArgs(0, TRUE)]})

RaceArrive ==
    /\ started < MaxTurns
    /\ \E req \in RaceRequests : StartTurn(FreeSlot, req)

RaceClear == ClearSession(U1)
RaceStream == \E s \in Slots, c \in RaceChunks : StreamChunk(s, c)

RaceNext ==
    \/ RaceArrive
    \/ RaceClear
    \/ ConcSearch
    \/ ConcProbe
    \/ ConcQuery
    \/ ConcSend
    \/ RaceStream
    \/ ConcStoreTurn
    \/ StreamEnds

RaceSpec == Init /\ [][RaceNext]_vars

(***************************************************************************)
(* SequelSpec: three requests of one user served one after another, so     *)
(* that an interview can be followed by a START or RESTART and that by a   *)
(* further turn; every collaborator answers.                               *)
(***************************************************************************)
SequelRequests ==
    Request({U1}, {"start", "restart", "continue"}, {1}, {NoMessage}, {NoJD}, {FALSE})

SequelChunks ==
    Chunk({""}, {[name |-> "ask_next_question", args |-> CallArgs(2, FALSE)]})

SequelServe ==
    /\ Idle
    /\ started < MaxArrivals
    /\ \E req \in SequelRequests : StartTurn("p", req)

SequelStream == \E s \in Slots, c \in SequelChunks : StreamChunk(s, c)

SequelNext ==
    \/ SequelServe
    \/ ConcSearch
    \/ ConcProbe
    \/ ConcQuery
    \/ ConcSend
    \/ SequelStream
    \/ ConcStoreTurn
    \/ StreamEnds

SequelSpec == Init /\ [][SequelNext]_vars

(***************************************************************************)
(* CountSpec: the interview of one user, served one request after another  *)
(* with every collaborator answering, and getSessionTurnCount called for   *)
(* either user at any moment.                                              *)
(***************************************************************************)
CountRequests ==
    Request({U1}, {"start", "continue"}, {1}, {NoMessage}, {NoJD}, {FALSE})

\* Histories of even and odd length, the empty one among them.
HistoryLengths == 0..5

HistoryReads ==
    {[ok |-> FALSE, length |-> 0]} \cup [ok : {TRUE}, length : HistoryLengths]

CountServe ==
    /\ Idle
    /\ started < MaxTurns
    /\ \E req \in CountRequests : StartTurn("p", req)

CountCall == \E u \in Users, read \in HistoryReads : TurnCountCall(u, read)

CountNext ==
    \/ CountServe
    \/ CountCall
    \/ ConcSearch
    \/ ConcProbe
    \/ ConcQuery
    \/ ConcSend
    \/ JdStream
    \/ ConcStoreTurn
    \/ StreamEnds

CountSpec == Init /\ [][CountNext]_vars

(***************************************************************************)
(* StreamSpec: the interview of one user over /chat and /chat/stream, the  *)
(* requests served one after another.                                      *)
(***************************************************************************)
StreamRequests ==
    Request({U1}, {"start", "continue"}, {NoResume}, {NoMessage}, {NoJD}, BOOLEAN)

\* Chunks with a text, a function call, both or neither.
StreamChunks ==
    Chunk({"", "t"}, Calls \cup {NoCall})

StreamServe ==
    /\ Idle
    /\ started < MaxTurns
    /\ \E req \in StreamRequests : StartTurn("p", req)

StreamAny == \E s \in Slots, c \in StreamChunks : StreamChunk(s, c)

StreamNext ==
    \/ StreamServe
    \/ Primary
    \/ Search
    \/ PrimaryAgain
    \/ Probe
    \/ Query
    \/ Send
    \/ StreamAny
    \/ StoreTurn
    \/ StreamFails
    \/ StreamEnds

StreamSpec == Init /\ [][StreamNext]_vars

(***************************************************************************)
(* Properties.  A finished turn stays in its slot, as done with its        *)
(* response or as failed with its error, until the slot takes the next     *)
(* request.                                                                *)
(***************************************************************************)
Continues(t) ==
    EffectiveAction(t.action) = "continue"

Ended(t) ==
    t.pc \in {"done", "failed"}

\* The step ends the turn of slot s (it returns or fails).
Ends(s) ==
    InFlight(s) /\ Ended(turns'[s])

\* The step returns the response of the turn of slot s.
Returns(s) ==
    InFlight(s) /\ turns'[s].pc = "done"

FinalFeedback(response) ==
    response.type = "generate_feedback" /\ response.is_complete

\* C1: a CONTINUE turn (or one without action) of a user who has no session
\* creates no session for the user, and when it has ended it has failed
\* with "No active session found".
C1_ContinueWithoutSessionFails ==
    \A s \in Slots :
        LET t == turns[s]
        IN  (t.pc # "idle" /\ Continues(t) /\ ~t.hadSession)
            => /\ ~hasSession(sessions, t.user)
               /\ Ended(t) => (t.pc = "failed" /\ t.error = "No active session found")

\* C2: when a turn returns a response whose tool result is generate_feedback
\* with is_final = true, the user has no session in the state the turn
\* returns in.
C2_FinalFeedbackDeletesSession ==
    [][\A s \in Slots :
          (Returns(s) /\ FinalFeedback(turns'[s].response))
          => ~hasSession(sessions', turns'[s].user)]_vars

\* A turn has returned final feedback to a user who had a session when it
\* began, and the user has none now.
C2_Witness ==
    \E s \in Slots :
        /\ turns[s].pc = "done"
        /\ turns[s].hadSession
        /\ FinalFeedback(turns[s].response)
        /\ "is_complete" \in turns[s].response.fields
        /\ ~hasSession(sessions, turns[s].user)

\* C3: a START turn that returns a response leaves a session for its user
\* and reports question_number = 1 in the response, whether or not the user
\* had a session before.
C3_StartReportsQuestionOne ==
    [][\A s \in Slots :
          (Returns(s) /\ turns'[s].action = "start")
          => /\ hasSession(sessions', turns'[s].user)
             /\ "question_number" \in turns'[s].response.fields
             /\ turns'[s].response.question_number = 1]_vars

\* C4: once a RESTART turn has resolved its session, the store its
\* fetchContext searches is the user's and empty, and the history it gets
\* for its prompt is empty.
C4_RestartForgetsHistory ==
    \A s \in Slots :
        LET t == turns[s]
        IN  (InFlight(s) /\ t.action = "restart")
            => /\ t.pc = "probe" =>
                    (userStores[t.user] = t.store /\ stores[t.store] = <<>>)
               /\ t.pc # "query"
               /\ t.pc \in {"storemsg", "send", "stream", "storeturn"} =>
                    t.history = {}

\* A RESTART turn of a user who had a session, after earlier turns, is
\* streaming the answer to a prompt built on an empty history.
C4_Witness ==
    \E s \in Slots :
        /\ turns[s].action = "restart"
        /\ turns[s].hadSession
        /\ turns[s].no > 1
        /\ turns[s].pc = "stream"
        /\ turns[s].history = {}

\* C5: a turn that ends leaves a session for its user exactly when the user
\* then has an unfinished interview: none after a final feedback; one after
\* a START or RESTART turn that returned otherwise; after any other turn,
\* one exactly when the user had a session when the turn began.
C5_SessionIffUnfinishedInterview ==
    [][\A s \in Slots :
          Ends(s)
          => LET t == turns'[s]
                 unfinished ==
                     IF t.pc = "done" /\ FinalFeedback(t.response) THEN FALSE
                     ELSE IF t.pc = "done" /\ t.action \in CreatingActions THEN TRUE
                     ELSE t.hadSession
             IN  hasSession(sessions', t.user) <=> unfinished]_vars

\* C6: two CONTINUE turns of one user of which the second began while the
\* first was in flight have not both returned a tool result with the same
\* question_number.
C6_ConcurrentContinuesDiffer ==
    LET p == turns["p"]
        q == turns["q"]
    IN  ~ /\ p.pc = "done" /\ q.pc = "done"
          /\ p.user = q.user
          /\ Continues(p) /\ Continues(q)
          /\ p.no < q.no
          /\ "question_number" \in p.response.fields
          /\ "question_number" \in q.response.fields
          /\ p.response.question_number = q.response.question_number

\* What the services hold for user b.
UserState(b) ==
    <<sessions[b],
      IF sessions[b] # 0 THEN <<handles[sessions[b]]>> ELSE <<>>,
      userStores[b],
      IF userStores[b] # 0 THEN stores[userStores[b]] ELSE <<>>,
      [r \in {NoResume} \cup ResumeIds |->
          IF CacheHit(cache, CacheKey(b, r)) THEN <<cache[CacheKey(b, r)]>> ELSE <<>>],
      jobDescs[b]>>

\* The step is one of an operation performed for user a.
OperationFor(a) ==
    \/ \E s \in Slots : turns'[s] # turns[s] /\ turns'[s].user = a
    \/ ClearSession(a)
    \/ ClearUserCache(a)
    \/ ClearUserHistory(a)

\* C7: no step of an operation performed for a user changes what the
\* services hold for another user: session, conversation memory, resume
\* cache entries, job description.
C7_UsersIndependent ==
    [][\A a \in Users, b \in Users :
          (a # b /\ OperationFor(a)) => UserState(b)' = UserState(b)]_vars

\* C8: of two consecutive fetchResumeContext calls for the same user and
\* resume with no invalidation between them, the second issues no search
\* and returns the list the first returned; so a first call that missed is
\* the only one of the two that searches.
C8_SecondFetchIsCacheHit ==
    \A i \in 1..(Len(calls) - 1) :
        (calls[i].user = calls[i + 1].user /\ calls[i].resume = calls[i + 1].resume)
        => /\ calls[i + 1].search = "none"
           /\ calls[i + 1].result = calls[i].result

\* Two consecutive calls for one key, the first with a failed search that
\* returned the empty list, the second a hit returning it.
C8_Witness ==
    /\ Len(calls) = 2
    /\ calls[1].user = calls[2].user /\ calls[1].resume = calls[2].resume
    /\ calls[1].search = "error"
    /\ calls[1].result = <<>>
    /\ calls[2].search = "none"
    /\ calls[2].result = <<>>

\* C9: a turn that asks for the primary resume context changes neither
\* sessions nor conversation memory by asking, and when the user has no
\* primary resume it fails with "No primary resume found", again changing
\* neither.
C9_NoPrimaryResumeFailsCleanly ==
    [][\A s \in Slots :
          /\ (turns[s].pc # "primary" /\ turns'[s].pc = "primary") =>
                UNCHANGED <<sessions, handles, userStores, stores>>
          /\ (turns[s].pc = "primary" /\ primary[turns[s].user] = NoResume) =>
                /\ turns'[s].pc = "failed"
                /\ turns'[s].error = "No primary resume found"
                /\ UNCHANGED <<sessions, handles, userStores, stores>>]_vars

\* A RESTART turn of a user with a session, memory and no primary resume has
\* failed with "No primary resume found"; session and memory are there.
C9_Witness ==
    \E s \in Slots :
        /\ turns[s].pc = "failed"
        /\ turns[s].action = "restart"
        /\ turns[s].error = "No primary resume found"
        /\ primary[turns[s].user] = NoResume
        /\ turns[s].hadSession
        /\ hasSession(sessions, turns[s].user)
        /\ hasHistory(userStores, turns[s].user)
        /\ stores[userStores[turns[s].user]] # <<>>

\* C10: the step in which storeTurn's addDocuments answers never fails the
\* turn: the turn goes on with its stream.
C10_StoreTurnNeverFailsTurn ==
    [][\A s \in Slots :
          turns[s].pc = "storeturn" => turns'[s].pc = "stream"]_vars

\* The user's conversation memory holds the answer m as storeMessage adds it.
HoldsAnswer(us, sto, u, m) ==
    /\ hasHistory(us, u)
    /\ \E i \in 1..Len(sto[us[u]]) : sto[us[u]][i] = MessageDoc(m)

\* C11: a turn that is not START or RESTART and carries a message has the
\* answer in the user's conversation memory from the moment it sends its
\* prompt, and the step that follows (the send or the stream going on,
\* failing, or the turn ending) leaves it there.
C11_AnswerStoredBeforeSend ==
    [][\A s \in Slots :
          LET t == turns[s]
          IN  (/\ t.message # NoMessage
               /\ t.action \notin CreatingActions
               /\ t.pc \in {"send", "stream", "storeturn"})
              => /\ HoldsAnswer(userStores, stores, t.user, t.message)
                 /\ HoldsAnswer(userStores', stores', t.user, t.message)]_vars

\* A CONTINUE turn with an answer has failed in the validation of its stream,
\* and the answer is in the user's conversation memory.
C11_Witness ==
    \E s \in Slots :
        /\ turns[s].pc = "failed"
        /\ turns[s].action = "continue"
        /\ turns[s].error = "No content received from stream"
        /\ HoldsAnswer(userStores, stores, turns[s].user, "m")

\* C12: a chunk whose function call has a name without handler leaves the
\* turn's tool result and the conversation memory as they were, and the
\* turn goes on with its stream.
C12_UnknownToolIgnored ==
    [][\A s \in Slots, c \in StreamChunks :
          (c.call # NoCall /\ c.call.name \notin HandlerNames /\ StreamChunk(s, c))
          => /\ turns'[s].pc = "stream"
             /\ turns'[s].result = turns[s].result
             /\ turns'[s].fullText = turns[s].fullText \o
                    (IF c.text # "" THEN <<c.text>> ELSE <<>>)
             /\ UNCHANGED <<userStores, stores>>]_vars

\* C13: a turn that has the result of a function call dispatches no further
\* call: no later chunk takes it into storeTurn again.
C13_OneInvocationPerTurn ==
    [][\A s \in Slots :
          (turns[s].pc = "stream" /\ turns[s].result # NoResult)
          => turns'[s].pc # "storeturn"]_vars

\* C14: a turn returns a response only when its stream result has text or a
\* tool result, and a stream that ends with neither fails the turn with
\* "No content received from stream".
C14_EmptyStreamResultFails ==
    [][\A s \in Slots :
          /\ Returns(s) => (turns[s].fullText # <<>> \/ turns[s].result # NoResult)
          /\ (StreamEnd(s) /\ turns[s].fullText = <<>> /\ turns[s].result = NoResult)
             => /\ turns'[s].pc = "failed"
                /\ turns'[s].error = "No content received from stream"
                /\ turns'[s].response = NoResponse]_vars

\* A turn whose stream yielded chunks (a function call without handler among
\* them) and ended without content has failed in the validation.
C14_Witness ==
    \E s \in Slots :
        /\ turns[s].pc = "failed"
        /\ turns[s].error = "No content received from stream"
        /\ turns[s].streaming
        /\ \E i \in 1..Len(turns[s].events) : turns[s].events[i].type = "function_call"

\* C15: when the provider's stream raises, the turn fails with "Stream
\* processing failed" and returns no response; a failed turn takes no
\* further step: its slot changes next when another request arrives.
C15_StreamErrorIsFatal ==
    [][\A s \in Slots :
          /\ StreamError(s)
             => /\ turns'[s].pc = "failed"
                /\ turns'[s].error = "Stream processing failed"
                /\ turns'[s].response = NoResponse
          /\ turns[s].pc = "failed"
             => (turns'[s] = turns[s] \/ turns'[s].no > turns[s].no)]_vars

\* A /chat/stream turn has failed with "Stream processing failed" after a
\* text chunk had been consumed.
C15_Witness ==
    \E s \in Slots :
        /\ turns[s].pc = "failed"
        /\ turns[s].error = "Stream processing failed"
        /\ turns[s].streaming
        /\ \E i \in 1..Len(turns[s].events) : turns[s].events[i].type = "text"

\* The events the callback of processStreamWithCallback has written: all
\* but the one the route writes when the turn has ended.
CallbackEvents(t) ==
    IF Ended(t) THEN SubSeq(t.events, 1, Len(t.events) - 1) ELSE t.events

\* The contents of the text events of ev, in order.
Texts(ev) ==
    LET texts == SelectSeq(ev, LAMBDA e : e.type = "text")
    IN  [i \in 1..Len(texts) |-> texts[i].content[1]]

ChunkEventsOnly(ev) ==
    \A i \in 1..Len(ev) : ev[i].type \in {"text", "function_call"}

\* The events a chunk is to give rise to: text before function call.
TextEvents(c) ==
    IF c.text # "" THEN <<Event("text", <<c.text>>)>> ELSE <<>>

CallEvents(call) ==
    IF call # NoCall THEN <<Event("function_call", <<call.name>>)>> ELSE <<>>

StreamFailures ==
    {"Stream processing failed", "Stream processing failed: Function execution failed"}

\* C16: in a /chat/stream turn every chunk adds its text event and then its
\* function_call event (for a call with a handler once storeTurn has
\* answered) to the events of the callback; while the stream goes on these
\* are the only events and their texts make up fullText; a turn that
\* returns has exactly one complete event, the last of the callback, with
\* the texts of all text events as fullText; a turn whose stream processing
\* failed has no complete event and an error event as the callback's last.
C16_CallbackEventsFollowChunks ==
    [][\A s \in Slots :
          turns'[s].streaming
          => LET t == turns'[s]
                 cb == CallbackEvents(t)
                 n == Len(cb)
             IN  /\ \A c \in StreamChunks :
                       (turns[s].streaming /\ StreamChunk(s, c))
                       => t.events = turns[s].events \o TextEvents(c) \o
                              (IF c.call.name \in HandlerNames
                               THEN <<>> ELSE CallEvents(c.call))
                 /\ (turns[s].streaming /\ StoreTurnDone(s, TRUE))
                       => t.events = turns[s].events \o CallEvents(turns[s].pending)
                 /\ t.pc \in {"stream", "storeturn"}
                       => (ChunkEventsOnly(cb) /\ Texts(cb) = t.fullText)
                 /\ t.pc = "done"
                       => /\ n >= 1
                          /\ cb[n] = Event("complete", Texts(cb))
                          /\ ChunkEventsOnly(SubSeq(cb, 1, n - 1))
                 /\ (t.pc = "failed" /\ t.error \in StreamFailures)
                       => /\ n >= 1
                          /\ cb[n].type = "error"
                          /\ ChunkEventsOnly(SubSeq(cb, 1, n - 1))]_vars

\* A /chat/stream turn has returned after a chunk with text and a function
\* call: text, function_call, complete, then the route's final event.
C16_Witness ==
    \E s \in Slots :
        /\ turns[s].pc = "done"
        /\ turns[s].streaming
        /\ Len(turns[s].events) = 4
        /\ turns[s].events[1] = Event("text", <<"t">>)
        /\ turns[s].events[2].type = "function_call"
        /\ turns[s].events[3] = Event("complete", <<"t">>)
        /\ turns[s].events[4].type = "final"

\* C17: the events written for a /chat/stream request that has ended hold
\* exactly one terminal event, and it is the last: the final event when the
\* turn returned, an error event when it failed.
C17_OneTerminalEventLast ==
    \A s \in Slots :
        LET t == turns[s]
            n == Len(t.events)
        IN  (t.streaming /\ Ended(t))
            => /\ n >= 1
               /\ {i \in 1..n : t.events[i].type \in {"final", "error"}} = {n}
               /\ t.pc = "done" => t.events[n].type = "final"
               /\ t.pc = "failed" => t.events[n].type = "error"

\* There is no cache entry of user u, under the user's key or under the key
\* of one of the user's resumes.
NoCacheEntry(c, u) ==
    \A r \in {NoResume} \cup ResumeIds : ~CacheHit(c, CacheKey(u, r))

NothingToReport ==
    [has_active_session |-> FALSE, turn_count |-> 0,
     has_history |-> FALSE, has_job_description |-> FALSE]

\* C18: when clearSession(userId) has run the user has no session, no
\* conversation memory, no resume cache entry (under the user's key or a
\* resume's key) and no job description, and getStatus reports
\* has_active_session, has_history and has_job_description false and
\* turn_count 0.
C18_ClearSessionLeavesNothing ==
    [][\A u \in Users :
          ClearSession(u)
          => /\ ~hasSession(sessions', u)
             /\ ~hasHistory(userStores', u)
             /\ NoCacheEntry(cache', u)
             /\ getJobDescription(jobDescs', u) = NoJD
             /\ getStatus(sessions', handles', userStores', jobDescs', u)
                    = NothingToReport]_vars

\* The first turn of the user has returned a question, so that it created a
\* session, a cache entry of resume 1 and the conversation memory, a job
\* description was stored, and nothing of it is left.
C18_Witness ==
    \E s \in Slots :
        /\ turns[s].pc = "done"
        /\ turns[s].no = 1
        /\ turns[s].user = U1
        /\ ~FinalFeedback(turns[s].response)
        /\ primary[U1] # NoResume
        /\ NoCacheEntry(cache, U1)
        /\ getStatus(sessions, handles, userStores, jobDescs, U1) = NothingToReport

\* C19: the job description stored for a user changes only in the step in
\* which a request of that user with a job_description arrives, which
\* stores that one, or in a step of clearSession for the user or of
\* clearAll; the steps of START, RESTART and final feedback turns leave it.
C19_JobDescriptionStays ==
    [][\A u \in Users :
          getJobDescription(jobDescs', u) # getJobDescription(jobDescs, u)
          => \/ \E req \in JdRequests :
                   /\ req.user = u
                   /\ req.job_description # NoJD
                   /\ req.job_description = getJobDescription(jobDescs', u)
                   /\ StartTurn(FreeSlot, req)
             \/ ClearSession(u)
             \/ ClearAll]_vars

\* The second turn, a RESTART, has ended with final feedback and the job
\* description of the user is still stored.
C19_Witness ==
    \E s \in Slots :
        /\ turns[s].pc = "done"
        /\ turns[s].no = 2
        /\ turns[s].action = "restart"
        /\ FinalFeedback(turns[s].response)
        /\ ~hasSession(sessions, U1)
        /\ getJobDescription(jobDescs, U1) = "jd1"

\* C20: a session created for a user while a job description is stored for
\* the user has that job description in its system instruction.
C20_SystemInstructionEmbedsJobDescription ==
    [][\A u \in Users :
          (/\ sessions'[u] # sessions[u]
           /\ hasSession(sessions', u)
           /\ getJobDescription(jobDescs', u) # NoJD)
          => handles'[sessions'[u]].systemInstruction.jobDescription
                 = getJobDescription(jobDescs', u)]_vars

\* C21: a FEEDBACK turn that returns a response returns type
\* generate_feedback with is_complete = true, and getStatus in the state it
\* returns in reports has_active_session = false.
C21_FeedbackTurnGivesFinalFeedback ==
    [][\A s \in Slots :
          (Returns(s) /\ turns'[s].action = "feedback")
          => /\ turns'[s].response.type = "generate_feedback"
             /\ "is_complete" \in turns'[s].response.fields
             /\ turns'[s].response.is_complete
             /\ ~getStatus(sessions', handles', userStores', jobDescs',
                           turns'[s].user).has_active_session]_vars

\* The list of page contents holds the entry content.
Has(result, content) ==
    \E i \in 1..Len(result) : result[i] = content

\* A storeTurn(u, h, a) that returned, logged at i, is followed at j by a
\* fetchContext for u with maxResults >= 2, with no call for u between them
\* and the two entries the only ones of the user.
RoundTrip(i, j) ==
    /\ i < j
    /\ calls[i].op = "storeTurn" /\ calls[i].outcome = "returned"
    /\ calls[j].op = "fetchContext" /\ calls[j].user = calls[i].user
    /\ \A m \in (i + 1)..(j - 1) : calls[m].user # calls[i].user
    /\ calls[j].k >= 2
    /\ calls[j].size = 2

ReturnsBoth(i, j) ==
    /\ calls[j].outcome = "returned"
    /\ calls[j].result # <<>>
    /\ Has(calls[j].result, <<"Human:", calls[i].input>>)
    /\ Has(calls[j].result, <<"AI:", calls[i].output>>)

C23_FailedSearchGivesEmptyContext ==
    [][\A s \in Slots :
          SearchDone(s, "error")
          => LET t == turns[s]
                 u == t.user
             IN  /\ turns'[s].pc # "failed"
                 /\ cache'[CacheKey(u, TurnResume(t))] = <<>>
                 /\ t.resume_id = NoResume
                    => (turns'[s].pc = "primary2" /\ turns'[s].context = <<>>)
                 /\ t.resume_id # NoResume
                    => /\ turns'[s].pc = "probe"
                       /\ hasSession(sessions', u)
                       /\ turns'[s].chat = sessions'[u]
                       /\ handles'[sessions'[u]].systemInstruction.resumeContext
                              = <<>>]_vars

\* A START turn with resume_id 1 has returned a response; the user's session
\* is the one it created, grounded in the empty list that is cached for the
\* resume.
C23_Witness ==
    \E s \in Slots :
        /\ turns[s].pc = "done"
        /\ turns[s].action = "start"
        /\ turns[s].no = 1
        /\ CacheHit(cache, CacheKey(turns[s].user, 1))
        /\ cache[CacheKey(turns[s].user, 1)] = <<>>
        /\ hasSession(sessions, turns[s].user)
        /\ handles[sessions[turns[s].user]].systemInstruction.resumeContext = <<>>

\* The step is one of the turn in slot s.
StepOf(s) ==
    turns'[s] # turns[s]

\* C24: no step of a CONTINUE, SKIP, FEEDBACK or END turn of a user who had
\* a session when the turn began changes the user's session entry, except
\* the step in which the turn returns final feedback; and a step of a turn
\* after which the user has no session any more is one that returns final
\* feedback.
C24_OtherTurnsKeepSession ==
    [][\A s \in Slots :
          LET t == turns'[s]
              u == t.user
              final == Returns(s) /\ FinalFeedback(t.response)
          IN  /\ (/\ StepOf(s)
                  /\ EffectiveAction(t.action) \in {"continue", "skip", "feedback", "end"}
                  /\ t.hadSession
                  /\ ~final)
                 => /\ hasSession(sessions', u)
                    /\ sessions'[u] = sessions[u]
              /\ (StepOf(s) /\ hasSession(sessions, u) /\ ~hasSession(sessions', u))
                 => final]_vars

\* An END turn of a user with a session has returned feedback that is not
\* final, and the user has a session.
C24_Witness ==
    \E s \in Slots :
        /\ turns[s].pc = "done"
        /\ turns[s].action = "end"
        /\ turns[s].hadSession
        /\ turns[s].response.type = "generate_feedback"
        /\ ~turns[s].response.is_complete
        /\ hasSession(sessions, turns[s].user)

\* C25: in the step in which a START or RESTART turn creates its session,
\* the session's resumeId becomes the resume the session is grounded in:
\* the resume_id the turn resolves its context by, the user's primary
\* resume when it has none.
C25_SessionKnowsItsResume ==
    [][\A s \in Slots :
          LET t == turns'[s]
              u == t.user
          IN  (/\ StepOf(s)
               /\ t.action \in CreatingActions
               /\ turns[s].pc # "probe"
               /\ t.pc = "probe")
              => /\ hasSession(sessions', u)
                 /\ sessions'[u] = t.chat
                 /\ handles'[t.chat].resumeId = TurnResume(t)]_vars

\* C26: processChatStreaming and processChat treat a request alike; in
\* particular, in the step in which a request arrives at either endpoint
\* the turn takes the request's resume_id as the one handleSession resolves
\* the resume context by, so that a turn whose request names a resume never
\* asks for the primary resume.
C26_BothEndpointsResolveAlike ==
    [][\A req \in ActionRequests :
          StartTurn(FreeSlot, req)
          => LET t == turns'[FreeSlot]
             IN  /\ t.resume_id = req.resume_id
                 /\ req.resume_id # NoResume => t.pc # "primary"]_vars

\* C27: the result start_interview builds has type start_interview and
\* question_number = 1, whatever the argument record holds.
C27_StartInterviewIsQuestionOne ==
    \A i \in 1..Len(calls) :
        calls[i].name = "start_interview"
        => /\ calls[i].result.type = "start_interview"
           /\ calls[i].result.question_number = 1

\* The place of a turn's position in the order of processChat's steps:
\* the session resolved (the resume context among it), the history fetched,
\* the answer recorded, the prompt sent, the stream processed, the end.
Rank(pc) ==
    CASE pc = "primary" -> 1
      [] pc = "search" -> 2
      [] pc = "primary2" -> 3
      [] pc = "probe" -> 4
      [] pc = "query" -> 5
      [] pc = "storemsg" -> 6
      [] pc = "send" -> 7
      [] pc \in {"stream", "storeturn"} -> 8
      [] OTHER -> 9

\* The documents of the store with identity id, none when it is not there.
DocsOf(sto, id) ==
    IF id \in DOMAIN sto THEN {sto[id][i] : i \in 1..Len(sto[id])} ELSE {}

\* C28: the steps of a turn come in one order.  The job description is
\* stored in the step in which the request arrives and in no later one; the
\* session is resolved before the history is fetched and changes afterwards
\* only when the turn returns; the prompt is built from the history as
\* fetched, before the answer is recorded, and stays as built, so that the
\* history in it is of documents stored before the answer; the answer is
\* recorded before the prompt is sent; and the session is deleted only in
\* the step that returns the response, whose turn_count is that of the
\* session with the turn's exchange in it.
C28_StepsInOrder ==
    [][\A s \in Slots :
          LET t == turns[s]
              n == turns'[s]
              u == n.user
              same == StepOf(s) /\ n.no = t.no
          IN  /\ same => Rank(n.pc) >= Rank(t.pc)
              /\ same => jobDescs' = jobDescs
              /\ (same /\ Rank(t.pc) >= 4 /\ ~Ended(n))
                 => (sessions' = sessions /\ n.chat = t.chat)
              /\ (StepOf(s) /\ hasSession(sessions, u) /\ ~hasSession(sessions', u))
                 => Returns(s)
              /\ (StepOf(s) /\ Rank(n.pc) <= 5) => n.prompt = NoPrompt
              /\ (same /\ Rank(t.pc) <= 5 /\ Rank(n.pc) \in {6, 7})
                 => /\ n.history \subseteq DocsOf(stores, t.store)
                    /\ n.prompt = buildPrompt(EffectiveAction(n.action), n.history,
                                              n.message, NoQuestionNumber)
                    /\ \A id \in DOMAIN stores \cap DOMAIN stores' :
                          stores'[id] = stores[id]
              /\ (same /\ Rank(t.pc) >= 6 /\ ~Ended(n))
                 => (n.prompt = t.prompt /\ n.history = t.history)
              /\ (same /\ t.pc = "storemsg" /\ n.pc = "send")
                 => stores'[t.store] = Append(stores[t.store], MessageDoc(t.message))
              /\ (same /\ Rank(t.pc) <= 5 /\ Rank(n.pc) = 7)
                 => ~StoresMessage(n)
              /\ Returns(s)
                 => n.response.turn_count = (handles[t.chat].history + 2) \div 2]_vars

\* The second turn of the user, a CONTINUE with an answer, has returned
\* final feedback with turn_count 2; the answer is in the memory and the
\* session is gone.
C28_Witness ==
    \E s \in Slots :
        /\ turns[s].pc = "done"
        /\ turns[s].no = 2
        /\ turns[s].action = "continue"
        /\ FinalFeedback(turns[s].response)
        /\ turns[s].response.turn_count = 2
        /\ HoldsAnswer(userStores, stores, turns[s].user, "m")
        /\ ~hasSession(sessions, turns[s].user)

QuestionFields == {"question", "question_number", "question_type", "reasoning"}
FeedbackFields == {"feedback", "is_complete"}

\* The response r, returned for action from the stream result (fullText,
\* result), has success = true, echoes the action (CONTINUE when omitted),
\* carries the question fields exactly when the result is start_interview or
\* ask_next_question, feedback and is_complete exactly when it is
\* generate_feedback, then with is_complete = is_final, and context exactly
\* when fullText is not empty.
ResponseAsBuilt(r, action, fullText, result) ==
    LET question == result.type \in {"start_interview", "ask_next_question"}
        feedback == result.type = "generate_feedback"
    IN  /\ r.success
        /\ r.action = (IF action = NoAction THEN "continue" ELSE action)
        /\ \A k \in QuestionFields : k \in r.fields <=> question
        /\ question => r.question_number = result.question_number
        /\ \A k \in FeedbackFields : k \in r.fields <=> feedback
        /\ feedback => r.is_complete = result.is_final
        /\ "context" \in r.fields <=> fullText # <<>>

\* C29 as stated: every returned response is as built above and carries
\* type, like the question fields, exactly when the tool result is
\* start_interview or ask_next_question.
C29_Original ==
    [][\A s \in Slots :
          Returns(s)
          => /\ ResponseAsBuilt(turns'[s].response, turns[s].action,
                                turns[s].fullText, turns[s].result)
             /\ "type" \in turns'[s].response.fields
                <=> turns[s].result.type \in {"start_interview", "ask_next_question"}]_vars

\* C29: every returned response is as built above and carries type exactly
\* when the stream produced a tool result, of whichever type, and then the
\* type of that result.
C29_ResponseFields ==
    [][\A s \in Slots :
          Returns(s)
          => /\ ResponseAsBuilt(turns'[s].response, turns[s].action,
                                turns[s].fullText, turns[s].result)
             /\ "type" \in turns'[s].response.fields <=> turns[s].result # NoResult
             /\ turns[s].result # NoResult
                => turns'[s].response.type = turns[s].result.type]_vars

\* A turn without action has returned feedback that is not final after a
\* text chunk: the response echoes CONTINUE and carries type, data,
\* feedback, is_complete = false and context.
C29_Witness ==
    \E s \in Slots :
        /\ turns[s].pc = "done"
        /\ turns[s].action = NoAction
        /\ turns[s].response.success
        /\ turns[s].response.action = "continue"
        /\ turns[s].response.type = "generate_feedback"
        /\ turns[s].response.fields
               = {"type", "data", "feedback", "is_complete", "context"}
        /\ ~turns[s].response.is_complete

\* C30: buildPrompt chooses the instruction by the action alone.  START and
\* RESTART give one and the same prompt whatever else is passed; FEEDBACK
\* and END give the feedback instruction with the history and without the
\* answer; SKIP gives the skip instruction with the history; every other
\* action (CONTINUE, NO_ANSWER, unknown strings) gives the continue
\* instruction with history, answer and question number; equal arguments
\* give equal prompts, and a call leaves the services as they are.
C30_PromptByActionAlone ==
    /\ \A i \in 1..Len(calls) :
          LET c == calls[i]
              p == c.prompt
          IN  /\ c.action \in {"start", "restart"}
                 => /\ p.instruction = "start"
                    /\ p.embeds = {}
                    /\ \A j \in 1..Len(calls) :
                          calls[j].action \in {"start", "restart"}
                          => calls[j].prompt = p
              /\ c.action \in {"feedback", "end"}
                 => /\ p.instruction = "feedback"
                    /\ p.embeds = {"history"}
                    /\ p.history = c.history
                    /\ p.answer = ""
              /\ c.action = "skip"
                 => /\ p.instruction = "skip"
                    /\ p.embeds = {"history"}
                    /\ p.history = c.history
                    /\ p.answer = ""
              /\ c.action \notin {"start", "restart", "feedback", "end", "skip"}
                 => /\ p.instruction = "continue"
                    /\ p.embeds = {"history", "answer"}
                    /\ p.history = c.history
                    /\ p.answer = c.answer
                    /\ p.questionNumber = c.questionNumber
              /\ \A j \in 1..Len(calls) :
                    (/\ calls[j].action = c.action
                     /\ calls[j].history = c.history
                     /\ calls[j].answer = c.answer
                     /\ calls[j].questionNumber = c.questionNumber)
                    => calls[j].prompt = p
    /\ calls # <<>>
       => /\ sessions = [u \in Users |-> 0]
          /\ userStores = [u \in Users |-> 0]
          /\ cache = <<>>
          /\ jobDescs = [u \in Users |-> NoJD]

\* buildPrompt has been called for END and for NO_ANSWER with the same
\* history and answer: the first prompt is the feedback instruction without
\* the answer, the second the continue instruction with it.
C30_Witness ==
    /\ Len(calls) = 2
    /\ calls[1].action = "end" /\ calls[2].action = "no_answer"
    /\ calls[1].history # NoHistory /\ calls[2].history = calls[1].history
    /\ calls[1].answer = "m" /\ calls[2].answer = "m"
    /\ calls[1].prompt.instruction = "feedback"
    /\ calls[1].prompt.answer = ""
    /\ calls[2].prompt.instruction = "continue"
    /\ calls[2].prompt.answer = "m"

\* The step is the RESTART branch of handleSession run for user u.
RestartsFor(u) ==
    \E s \in Slots :
        /\ StepOf(s)
        /\ turns'[s].user = u
        /\ turns'[s].action = "restart"
        /\ turns[s].pc # "probe"
        /\ turns'[s].pc = "probe"

\* C31: the conversation memory of a user only grows between clears.  A
\* step that leaves the user's store in place keeps every entry where it is
\* and adds nothing, or the one entry of a storeMessage that has answered,
\* or the two entries (human, then ai) of a storeTurn that has answered; a
\* store is empty when it becomes the user's; the user's store is replaced
\* or removed only by a clearSession for the user or by the RESTART branch
\* of one of the user's turns; and the step in which a turn returns final
\* feedback leaves the memory as it is.
C31_MemoryAppendOnly ==
    [][\A u \in Users :
          LET id == userStores[u]
              kept == userStores'[u] = id
              old == stores[id]
              new == stores'[id]
              added == SubSeq(new, Len(old) + 1, Len(new))
          IN  /\ (id # 0 /\ kept)
                 => /\ Len(new) >= Len(old)
                    /\ SubSeq(new, 1, Len(old)) = old
                    /\ \A s \in Slots :
                          (turns[s].store = id /\ StoreMessageDone(s, TRUE))
                          => added = <<MessageDoc(turns[s].message)>>
                    /\ \A s \in Slots :
                          (turns[s].store = id /\ StoreTurnDone(s, TRUE))
                          => /\ Len(added) = 2
                             /\ added[1].role = "user"
                             /\ added[2].role = "ai"
                    /\ added # <<>>
                       => \E s \in Slots :
                             /\ turns[s].store = id
                             /\ StoreMessageDone(s, TRUE) \/ StoreTurnDone(s, TRUE)
              /\ (userStores'[u] # 0 /\ ~kept) => stores'[userStores'[u]] = <<>>
              /\ (id # 0 /\ ~kept) => (ClearSession(u) \/ RestartsFor(u))
              /\ \A s \in Slots :
                    (Returns(s) /\ turns[s].user = u /\ FinalFeedback(turns'[s].response))
                    => (kept /\ (id # 0 => new = old))]_vars

\* The second turn of the user, a CONTINUE with an answer, has returned
\* final feedback; the memory holds the two entries of the first turn's
\* tool call, the answer and the two entries of the feedback call.
C31_Witness ==
    \E s \in Slots :
        /\ turns[s].pc = "done"
        /\ turns[s].no = 2
        /\ turns[s].action = "continue"
        /\ FinalFeedback(turns[s].response)
        /\ ~hasSession(sessions, U1)
        /\ hasHistory(userStores, U1)
        /\ Len(stores[userStores[U1]]) = 5
        /\ stores[userStores[U1]][3] = MessageDoc("m")
        /\ stores[userStores[U1]][4] = CallDoc("generate_feedback")

\* C32: clearUserCache(u) leaves no cache entry of u, under the user's key
\* or under the key of any resume of the user; clearResumeCache(u, r)
\* removes the entry of (u, r) and leaves every other entry, the user's own
\* and those of other resumes among them, as it is; and a fetch for a key
\* that is not in the cache, as every removed key is, issues a similarity
\* search and caches what it returns.
C32_InvalidationRemovesEntries ==
    [][/\ \A u \in Users :
             ClearUserCache(u) => NoCacheEntry(cache', u)
       /\ \A u \in Users, r \in ResumeIds :
             ClearResumeCache(u, r)
             => /\ ~CacheHit(cache', CacheKey(u, r))
                /\ DOMAIN cache' = DOMAIN cache \ {CacheKey(u, r)}
                /\ \A k \in DOMAIN cache' : cache'[k] = cache[k]
                /\ CacheHit(cache, CacheKey(u, NoResume))
                   => CacheHit(cache', CacheKey(u, NoResume))
       /\ \A u \in Users, r \in {NoResume} \cup ResumeIds, o \in SearchOutcomes :
             (FetchResumeContext(u, r, o) /\ ~CacheHit(cache, CacheKey(u, r)))
             => /\ calls'[Len(calls')].search = o
                /\ CacheHit(cache', CacheKey(u, r))
                /\ cache'[CacheKey(u, r)] = calls'[Len(calls')].result]_vars

\* Since the last invalidation the one fetch made, for resume 1 of u1, has
\* searched, while the entries under the user's own key and under resume 2,
\* fetched before the invalidation, are in the cache.
C32_Witness ==
    /\ Len(calls) = 1
    /\ calls[1].user = U1 /\ calls[1].resume = 1
    /\ calls[1].search = "docs"
    /\ CacheHit(cache, CacheKey(U1, NoResume))
    /\ CacheHit(cache, CacheKey(U1, 2))
    /\ cache[CacheKey(U1, 1)] = <<Snippet(U1, 1)>>

\* The turn in slot s is in processStream: it waits for the provider's
\* stream or for the storeTurn of a chunk of it.
InStream(s) ==
    turns[s].pc \in {"stream", "storeturn"}

C34_CleanupDeletesOwnSession ==
    [][\A s \in Slots :
          LET u == turns[s].user
          IN  (/\ Returns(s)
               /\ FinalFeedback(turns'[s].response)
               /\ hasSession(sessions, u))
              => sessions[u] = turns[s].chat]_vars

\* C35: in the step in which a turn calls sendMessageStream, the chat it
\* calls it on is the one stored as the user's session.
C35_SendsToCurrentSession ==
    [][\A s \in Slots :
          LET u == turns'[s].user
          IN  (turns[s].pc # "send" /\ turns'[s].pc = "send")
              => /\ hasSession(sessions', u)
                 /\ sessions'[u] = turns'[s].chat]_vars

\* C36: the step in which a turn fails after handleSession has returned its
\* chat (in fetchContext, storeMessage, the send, the stream, storeTurn or
\* the validation) leaves the sessions as they are: the chat the turn
\* created or reused is the user's session after the failure as before.
C36_FailureKeepsSession ==
    [][\A s \in Slots :
          LET t == turns[s]
              u == t.user
          IN  (InFlight(s) /\ t.chat # 0 /\ turns'[s].pc = "failed")
              => /\ sessions' = sessions
                 /\ hasSession(sessions', u)
                 /\ sessions'[u] = t.chat
                 /\ handles'[t.chat].systemInstruction
                        = handles[t.chat].systemInstruction]_vars

\* The first turn of the user, a START, has failed in the send, and the
\* user has a session.
C36_Witness ==
    \E s \in Slots :
        /\ turns[s].pc = "failed"
        /\ turns[s].no = 1
        /\ turns[s].action = "start"
        /\ ~turns[s].hadSession
        /\ turns[s].error = "send failed"
        /\ hasSession(sessions, turns[s].user)
        /\ getStatus(sessions, handles, userStores, jobDescs,
                     turns[s].user).has_active_session

\* C37: a call of fetchContext leaves the conversation memory as it is; for
\* a user without a recorded turn it returns the empty string, and
\* hasHistory, like has_history of getStatus, is false for the user after
\* the call as before.
C37_FetchContextIsPureQuery ==
    [][\A u \in Users :
          (\E k \in MemoryLimits, probeOk \in BOOLEAN, queryOk \in BOOLEAN :
              FetchContextCall(u, k, probeOk, queryOk))
          => /\ UNCHANGED <<userStores, stores>>
             /\ ~hasHistory(userStores, u)
                => /\ calls'[Len(calls')].outcome = "returned"
                   /\ calls'[Len(calls')].result = <<>>
                   /\ ~hasHistory(userStores', u)
                   /\ ~getStatus(sessions', handles', userStores', jobDescs',
                                 u).has_history]_vars

\* The step is the one in which the turn in slot s creates its session.
Creates(s) ==
    /\ StepOf(s)
    /\ turns[s].pc # "probe"
    /\ turns'[s].pc = "probe"
    /\ shouldCreateNew(turns'[s].hadSession, turns'[s].action)

\* C38: the step in which a START turn creates its session makes a new chat
\* without history the user's session and leaves the user's conversation
\* memory, store and entries, as it is; the history a turn then fetches is
\* of the entries in that store, all of them while they are no more than
\* maxResults, those of an earlier interview among them, and a turn that is
\* not START or RESTART embeds it in its prompt;
\* no step of a turn that is not RESTART replaces or removes the user's
\* store, and the creating step of a RESTART turn leaves the user an empty
\* one.
C38_StartKeepsMemory ==
    [][\A s \in Slots :
          LET t == turns[s]
              n == turns'[s]
              u == n.user
              id == userStores[u]
          IN  /\ (Creates(s) /\ n.action = "start")
                 => /\ n.chat \notin DOMAIN handles
                    /\ sessions'[u] = n.chat
                    /\ handles'[n.chat].history = 0
                    /\ hasHistory(userStores, u)
                       => /\ userStores'[u] = id
                          /\ stores'[id] = stores[id]
                          /\ n.store = id
              /\ (StepOf(s) /\ n.no = t.no /\ Rank(t.pc) <= 5 /\ Rank(n.pc) \in {6, 7})
                 => /\ n.history \subseteq DocsOf(stores, id)
                    /\ Cardinality(DocsOf(stores, id)) <= MaxResults
                       => n.history = DocsOf(stores, id)
                    /\ EffectiveAction(n.action) \notin CreatingActions
                       => (n.prompt.history = n.history
                           /\ "history" \in n.prompt.embeds)
              /\ (StepOf(s) /\ n.action # "restart" /\ hasHistory(userStores, u))
                 => userStores'[u] = id
              /\ (Creates(s) /\ n.action = "restart")
                 => /\ hasHistory(userStores', u)
                    /\ userStores'[u] # id
                    /\ stores'[userStores'[u]] = <<>>]_vars

\* The user's third turn, a CONTINUE, has sent a prompt that embeds the
\* entries of the two earlier turns, to a session that holds one exchange
\* only: the second turn was a START, which replaced the session and kept
\* the memory.
C38_Witness ==
    \E s \in Slots :
        /\ turns[s].pc = "send"
        /\ turns[s].no = 3
        /\ turns[s].action = "continue"
        /\ sessions[U1] = turns[s].chat
        /\ handles[turns[s].chat].history = 2
        /\ Len(stores[userStores[U1]]) = 4
        /\ turns[s].prompt.instruction = "continue"
        /\ turns[s].prompt.history = DocsOf(stores, userStores[U1])
        /\ Cardinality(turns[s].prompt.history) >= 2

\* n is floor(length / 2).
IsHalfOf(n, length) ==
    2 * n <= length /\ length < 2 * n + 2

\* C39: getSessionTurnCount returns floor(length / 2) of the history's
\* length for a user with a session whose history can be read, 0 when
\* reading it raises and 0 for a user without a session; and the turn_count
\* of a response is that count of the user's session, the turn's exchange in
\* its history, read in the step that returns the response, before that
\* step deletes the session after final feedback.
C39_TurnCountIsHalfTheHistory ==
    [][/\ \A u \in Users, read \in HistoryReads :
             TurnCountCall(u, read)
             => LET result == calls'[Len(calls')].result
                IN  /\ (hasSession(sessions, u) /\ read.ok)
                       => IsHalfOf(result, read.length)
                    /\ (hasSession(sessions, u) /\ ~read.ok) => result = 0
                    /\ ~hasSession(sessions, u) => result = 0
       /\ \A s \in Slots :
             Returns(s)
             => LET u == turns[s].user
                IN  /\ hasSession(sessions, u)
                    /\ IsHalfOf(turns'[s].response.turn_count,
                                handles[sessions[u]].history + 2)]_vars

\* getSessionTurnCount has answered 2 for a session with a history of five
\* and 0 for one whose history could not be read, and the user's second
\* turn has since returned final feedback with turn_count 2 and deleted the
\* session.
C39_Witness ==
    /\ Len(calls) = 2
    /\ calls[1].session /\ calls[1].read = [ok |-> TRUE, length |-> 5]
    /\ calls[1].result = 2
    /\ calls[2].session /\ ~calls[2].read.ok
    /\ calls[2].result = 0
    /\ \E s \in Slots :
          /\ turns[s].pc = "done"
          /\ turns[s].no = 2
          /\ FinalFeedback(turns[s].response)
          /\ turns[s].response.turn_count = 2
          /\ ~hasSession(sessions, turns[s].user)

====
